---- MODULE Spec2Model ----
(***************************************************************************)
(* Vulnerability / asset correlation engine of zjs_project.                *)
(*                                                                         *)
(* Strings are finite sequences of one-character strings, so that          *)
(* str.split(":"), slicing and field comparison are computed as the code   *)
(* computes them.  Python dicts are TLA+ functions whose DOMAIN is the set *)
(* of keys; JSON values stored in the affected_products column are tagged  *)
(* records ([t |-> "null"], [t |-> "list", v |-> ...], [t |-> "dict", ...]).*)
(***************************************************************************)
EXTENDS Integers, Sequences, FiniteSets, TLC

(***************************************************************************)
(* Character strings                                                       *)
(***************************************************************************)
Min(a, b) == IF a <= b THEN a ELSE b

\* sep.join(fields)
RECURSIVE Join(_, _)
Join(fields, sep) ==
  IF fields = <<>> THEN <<>>
  ELSE IF Len(fields) = 1 THEN fields[1]
  ELSE fields[1] \o <<sep>> \o Join(Tail(fields), sep)

\* str.split(sep) for a one-character separator
RECURSIVE SplitFrom(_, _, _, _)
SplitFrom(s, seps, i, cur) ==
  IF i > Len(s) THEN <<cur>>
  ELSE IF s[i] \in seps THEN <<cur>> \o SplitFrom(s, seps, i + 1, <<>>)
  ELSE SplitFrom(s, seps, i + 1, Append(cur, s[i]))

Split(s, sep) == SplitFrom(s, {sep}, 1, <<>>)

\* seq[:n]
Take(seq, n) == SubSeq(seq, 1, Min(n, Len(seq)))

\* literals
S_cpe == <<"c", "p", "e">>
S_23 == <<"2", ".", "3">>
S_star == <<"*">>
S_nginx == <<"n", "g", "i", "n", "x">>
S_apache == <<"a", "p", "a", "c", "h", "e">>
S_httpd == <<"h", "t", "t", "p", "d">>
S_web == <<"w", "e", "b">>

(***************************************************************************)
(* src/utils/cpe_generator.py                                              *)
(***************************************************************************)
\* str.lower() on the letters the model uses
LowerChar(c) ==
  CASE c = "N" -> "n"
    [] c = "A" -> "a"
    [] c = "H" -> "h"
    [] OTHER -> c

normalize_name(name) ==
  [i \in 1..Len(name) |->
     LET c == LowerChar(name[i]) IN IF c \in {" ", "/"} THEN "_" ELSE c]

ConstraintChars == {"^", "~", ">", "=", "<"}

RECURSIVE StripLeading(_, _)
StripLeading(s, chars) ==
  IF s # <<>> /\ Head(s) \in chars THEN StripLeading(Tail(s), chars) ELSE s

RECURSIVE StripTrailing(_, _)
StripTrailing(s, chars) ==
  IF s # <<>> /\ s[Len(s)] \in chars
  THEN StripTrailing(SubSeq(s, 1, Len(s) - 1), chars) ELSE s

\* re.sub(r"^[\^~>=<]+", "", v); re.split(r"[-_]", v)[0]; .strip()
normalize_version(version) ==
  LET stripped == StripLeading(version, ConstraintChars)
      first == SplitFrom(stripped, {"-", "_"}, 1, <<>>)[1]
  IN StripTrailing(StripLeading(first, {" "}), {" "})

generate_cpe_from_manual(vendor, product, version) ==
  Join(<<S_cpe, S_23, <<"a">>, normalize_name(vendor), normalize_name(product),
         normalize_version(version),
         S_star, S_star, S_star, S_star, S_star, S_star, S_star>>, ":")

\* str.lower()
Lower(s) == [i \in 1..Len(s) |-> LowerChar(s[i])]

\* sub in s
Contains(s, c) == \E i \in 1..Len(s) : s[i] = c

\* s.split(sep, 1) of a string that contains sep
SplitOnce(s, sep) ==
  LET i == CHOOSE k \in 1..Len(s) : s[k] = sep /\ \A j \in 1..(k - 1) : s[j] # sep
  IN <<SubSeq(s, 1, i - 1), SubSeq(s, i + 1, Len(s))>>

\* s.split(sep)[-1]
LastField(s, sep) == LET fields == Split(s, sep) IN fields[Len(fields)]

S_npmjs == <<"n", "p", "m", "j", "s">>
S_docker == <<"d", "o", "c", "k", "e", "r">>
S_react == <<"r", "e", "a", "c", "t">>
S_facebook == <<"f", "a", "c", "e", "b", "o", "o", "k">>
S_php == <<"p", "h", "p">>
S_scratch == <<"s", "c", "r", "a", "t", "c", "h">>
S_latest == <<"l", "a", "t", "e", "s", "t">>

\* the entries of the vendor maps for the packages and images of the model
NPM_VENDOR_MAP == S_react :> S_facebook
DOCKER_VENDOR_MAP == (S_nginx :> S_nginx) @@ (S_apache :> S_apache) @@ (S_httpd :> S_apache)

\* dict.get(key, default)
Get(map, key, default) == IF key \in DOMAIN map THEN map[key] ELSE default

\* vendor, product = package_name.split("/", 1), else both are the package name
composer_vendor(package_name) ==
  IF Contains(package_name, "/") THEN SplitOnce(package_name, "/")[1] ELSE package_name
composer_product(package_name) ==
  IF Contains(package_name, "/") THEN SplitOnce(package_name, "/")[2] ELSE package_name

generate_cpe_from_composer(package_name, version) ==
  Join(<<S_cpe, S_23, <<"a">>, normalize_name(composer_vendor(package_name)),
         normalize_name(composer_product(package_name)), normalize_version(version),
         S_star, S_star, S_star, S_star, S_star, S_star, S_star>>, ":")

\* package_name.lstrip("@").split("/")[-1]
npm_product(package_name) == LastField(StripLeading(package_name, {"@"}), "/")

generate_cpe_from_npm(package_name, version) ==
  Join(<<S_cpe, S_23, <<"a">>, normalize_name(Get(NPM_VENDOR_MAP, package_name, S_npmjs)),
         normalize_name(npm_product(package_name)), normalize_version(version),
         S_star, S_star, S_star, S_star, S_star, S_star, S_star>>, ":")

generate_cpe_from_docker(image_name, image_tag) ==
  Join(<<S_cpe, S_23, <<"a">>, normalize_name(Get(DOCKER_VENDOR_MAP, image_name, S_docker)),
         normalize_name(image_name), normalize_version(image_tag),
         S_star, S_star, S_star, S_star, S_star, S_star, S_star>>, ":")

\* None is [ok |-> FALSE]
extract_cpe_parts(cpe_code) ==
  LET parts == Split(cpe_code, ":") IN
  IF Len(parts) < 6 \/ parts[1] # S_cpe \/ parts[2] # S_23
  THEN [ok |-> FALSE]
  ELSE [ok |-> TRUE, part |-> parts[3], vendor |-> parts[4],
        product |-> parts[5], version |-> parts[6]]

(***************************************************************************)
(* packaging.version.parse, on release-only version strings.  A string is  *)
(* accepted iff it is a dot-separated list of non-empty digit runs; every  *)
(* other string the model uses ("*", "invalid", "", "1..0") is outside the *)
(* PEP 440 grammar and raises InvalidVersion.                              *)
(***************************************************************************)
Digits == {"0", "1", "2", "3", "4", "5", "6", "7", "8", "9"}

DigitVal(c) ==
  CASE c = "0" -> 0 [] c = "1" -> 1 [] c = "2" -> 2 [] c = "3" -> 3
    [] c = "4" -> 4 [] c = "5" -> 5 [] c = "6" -> 6 [] c = "7" -> 7
    [] c = "8" -> 8 [] c = "9" -> 9

RECURSIVE NumVal(_, _)
NumVal(s, acc) ==
  IF s = <<>> THEN acc ELSE NumVal(Tail(s), acc * 10 + DigitVal(Head(s)))

version_parse(s) ==
  LET fields == Split(s, ".") IN
  IF \A i \in 1..Len(fields) :
        fields[i] # <<>> /\ \A j \in 1..Len(fields[i]) : fields[i][j] \in Digits
  THEN [ok |-> TRUE, release |-> [i \in 1..Len(fields) |-> NumVal(fields[i], 0)]]
  ELSE [ok |-> FALSE]

\* Version.__lt__ etc.: releases compare as tuples after trailing zeros are dropped
RECURSIVE CmpRelease(_, _, _)
CmpRelease(a, b, i) ==
  LET x == IF i <= Len(a) THEN a[i] ELSE 0
      y == IF i <= Len(b) THEN b[i] ELSE 0
  IN IF i > Len(a) /\ i > Len(b) THEN 0
     ELSE IF x < y THEN -1
     ELSE IF x > y THEN 1
     ELSE CmpRelease(a, b, i + 1)

VersionCmp(a, b) == CmpRelease(a.release, b.release, 1)

(***************************************************************************)
(* JSON values of the affected_products column                             *)
(***************************************************************************)
JNull == [t |-> "null"]
JList(items) == [t |-> "list", v |-> items]
JDict(d) == [t |-> "dict", v |-> d]
EmptyDict == [k \in {} |-> JNull]

\* Python truthiness of None / list / dict
Truthy(j) ==
  CASE j.t = "null" -> FALSE
    [] j.t = "list" -> j.v # <<>>
    [] j.t = "dict" -> DOMAIN j.v # {}

\* d.get(key, default) on a Python dict
DictGet(d, key, default) == IF key \in DOMAIN d THEN d[key] ELSE default

(***************************************************************************)
(* src/services/matching_service.py: the three predicates                  *)
(***************************************************************************)
\* variant that compares the whole identifiers
match_exact_whole_string(asset_cpe, vulnerability_cpe) == asset_cpe = vulnerability_cpe

match_exact(asset_cpe, vulnerability_cpe) ==
  Take(Split(asset_cpe, ":"), 8) = Take(Split(vulnerability_cpe, ":"), 8)

BoundKeys == <<"versionStartIncluding", "versionStartExcluding",
               "versionEndIncluding", "versionEndExcluding">>

\* variant of the bound blocks with inclusive and exclusive comparisons swapped
BoundHolds_swapped(key, asset_ver, product_ranges) ==
  IF key \notin DOMAIN product_ranges THEN TRUE
  ELSE LET b == version_parse(product_ranges[key]) IN
       IF ~b.ok THEN FALSE
       ELSE LET c == VersionCmp(asset_ver, b) IN
            CASE key = "versionStartIncluding" -> ~(c <= 0)
              [] key = "versionStartExcluding" -> ~(c < 0)
              [] key = "versionEndIncluding" -> ~(c >= 0)
              [] key = "versionEndExcluding" -> ~(c > 0)

\* variant of the bound blocks that ignores a bound it cannot parse
BoundHolds_skip_unparseable(key, asset_ver, product_ranges) ==
  IF key \notin DOMAIN product_ranges THEN TRUE
  ELSE LET b == version_parse(product_ranges[key]) IN
       IF ~b.ok THEN TRUE
       ELSE LET c == VersionCmp(asset_ver, b) IN
            CASE key = "versionStartIncluding" -> ~(c < 0)
              [] key = "versionStartExcluding" -> ~(c <= 0)
              [] key = "versionEndIncluding" -> ~(c > 0)
              [] key = "versionEndExcluding" -> ~(c >= 0)

\* one "if key in product_ranges: try ... except ... return False" block;
\* TRUE when the block lets control fall through to the next one
BoundHolds(key, asset_ver, product_ranges) ==
  IF key \notin DOMAIN product_ranges THEN TRUE
  ELSE LET b == version_parse(product_ranges[key]) IN
       IF ~b.ok THEN FALSE
       ELSE LET c == VersionCmp(asset_ver, b) IN
            CASE key = "versionStartIncluding" -> ~(c < 0)
              [] key = "versionStartExcluding" -> ~(c <= 0)
              [] key = "versionEndIncluding" -> ~(c > 0)
              [] key = "versionEndExcluding" -> ~(c >= 0)

\* vulnerability_ranges is the dict stored under "version_ranges" (a JSON value)
match_version_range(asset_vendor, asset_product, asset_version, vulnerability_ranges) ==
  IF ~Truthy(vulnerability_ranges) THEN FALSE
  ELSE
    LET d == vulnerability_ranges.v
        first == DictGet(d, asset_product, JNull)
        product_ranges ==
          IF Truthy(first) THEN first
          ELSE DictGet(d, asset_vendor \o <<":">> \o asset_product, JNull)
    IN IF ~Truthy(product_ranges) THEN FALSE
       ELSE LET asset_ver == version_parse(asset_version) IN
            IF ~asset_ver.ok THEN FALSE
            ELSE \A i \in 1..Len(BoundKeys) :
                   BoundHolds(BoundKeys[i], asset_ver, product_ranges.v)

\* variant that does not compare the part field
match_wildcard_ignore_part(asset_cpe, vulnerability_cpe) ==
  LET asset_parts == Split(asset_cpe, ":")
      vuln_parts == Split(vulnerability_cpe, ":")
  IN IF Len(asset_parts) < 8 \/ Len(vuln_parts) < 8 THEN FALSE
     ELSE IF asset_parts[4] # vuln_parts[4]
             \/ asset_parts[5] # vuln_parts[5] THEN FALSE
     ELSE \A i \in 6..8 : vuln_parts[i] = S_star

match_wildcard(asset_cpe, vulnerability_cpe) ==
  LET asset_parts == Split(asset_cpe, ":")
      vuln_parts == Split(vulnerability_cpe, ":")
  IN IF Len(asset_parts) < 8 \/ Len(vuln_parts) < 8 THEN FALSE
     ELSE IF asset_parts[3] # vuln_parts[3]
             \/ asset_parts[4] # vuln_parts[4]
             \/ asset_parts[5] # vuln_parts[5] THEN FALSE
     ELSE \A i \in 6..8 : vuln_parts[i] = S_star

\* affected_products or {}; .get("cpe", [])
extract_cpe_from_vulnerability(affected_products) ==
  LET ap == IF Truthy(affected_products) THEN affected_products.v ELSE EmptyDict
  IN DictGet(ap, "cpe", JList(<<>>))

\* variant of the resolver that tries the wildcard stage first
execute_matching_wildcard_first(asset_cpe, affected_products) ==
  LET vuln_cpe_list == extract_cpe_from_vulnerability(affected_products)
      version_ranges ==
        IF Truthy(affected_products)
        THEN DictGet(affected_products.v, "version_ranges", JDict(EmptyDict))
        ELSE JDict(EmptyDict)
      asset_parts == extract_cpe_parts(asset_cpe)
  IN IF vuln_cpe_list.t # "list" THEN "raise"
     ELSE IF \E i \in 1..Len(vuln_cpe_list.v) : match_wildcard(asset_cpe, vuln_cpe_list.v[i])
          THEN "wildcard_match"
     ELSE IF \E i \in 1..Len(vuln_cpe_list.v) : match_exact(asset_cpe, vuln_cpe_list.v[i])
          THEN "exact_match"
     ELSE IF Truthy(version_ranges) /\ asset_parts.ok
             /\ match_version_range(asset_parts.vendor, asset_parts.product,
                                    asset_parts.version, version_ranges)
          THEN "version_range"
     ELSE "None"

\* variant of the resolver that tries the range stage last
execute_matching_range_last(asset_cpe, affected_products) ==
  LET vuln_cpe_list == extract_cpe_from_vulnerability(affected_products)
      version_ranges ==
        IF Truthy(affected_products)
        THEN DictGet(affected_products.v, "version_ranges", JDict(EmptyDict))
        ELSE JDict(EmptyDict)
      asset_parts == extract_cpe_parts(asset_cpe)
  IN IF vuln_cpe_list.t # "list" THEN "raise"
     ELSE IF \E i \in 1..Len(vuln_cpe_list.v) : match_exact(asset_cpe, vuln_cpe_list.v[i])
          THEN "exact_match"
     ELSE IF \E i \in 1..Len(vuln_cpe_list.v) : match_wildcard(asset_cpe, vuln_cpe_list.v[i])
          THEN "wildcard_match"
     ELSE IF Truthy(version_ranges) /\ asset_parts.ok
             /\ match_version_range(asset_parts.vendor, asset_parts.product,
                                    asset_parts.version, version_ranges)
          THEN "version_range"
     ELSE "None"

\* variant of the resolver whose wildcard stage looks at the first listed
\* identifier only
execute_matching_first_wildcard_only(asset_cpe, affected_products) ==
  LET vuln_cpe_list == extract_cpe_from_vulnerability(affected_products)
      version_ranges ==
        IF Truthy(affected_products)
        THEN DictGet(affected_products.v, "version_ranges", JDict(EmptyDict))
        ELSE JDict(EmptyDict)
      asset_parts == extract_cpe_parts(asset_cpe)
  IN IF vuln_cpe_list.t # "list" THEN "raise"
     ELSE IF \E i \in 1..Len(vuln_cpe_list.v) : match_exact(asset_cpe, vuln_cpe_list.v[i])
          THEN "exact_match"
     ELSE IF Truthy(version_ranges) /\ asset_parts.ok
             /\ match_version_range(asset_parts.vendor, asset_parts.product,
                                    asset_parts.version, version_ranges)
          THEN "version_range"
     ELSE IF Len(vuln_cpe_list.v) > 0 /\ match_wildcard(asset_cpe, vuln_cpe_list.v[1])
          THEN "wildcard_match"
     ELSE "None"

\* variant of the resolver whose loops stop after the first listed identifier
execute_matching_first_listed_only(asset_cpe, affected_products) ==
  LET vuln_cpe_list == extract_cpe_from_vulnerability(affected_products)
      version_ranges ==
        IF Truthy(affected_products)
        THEN DictGet(affected_products.v, "version_ranges", JDict(EmptyDict))
        ELSE JDict(EmptyDict)
      asset_parts == extract_cpe_parts(asset_cpe)
  IN IF vuln_cpe_list.t # "list" THEN "raise"
     ELSE IF Len(vuln_cpe_list.v) > 0 /\ match_exact(asset_cpe, vuln_cpe_list.v[1])
          THEN "exact_match"
     ELSE IF Truthy(version_ranges) /\ asset_parts.ok
             /\ match_version_range(asset_parts.vendor, asset_parts.product,
                                    asset_parts.version, version_ranges)
          THEN "version_range"
     ELSE IF Len(vuln_cpe_list.v) > 0 /\ match_wildcard(asset_cpe, vuln_cpe_list.v[1])
          THEN "wildcard_match"
     ELSE "None"

\* The resolver.  "None" is the absent value; "raise" stands for the
\* TypeError of iterating a null identifier list ("cpe": null).
execute_matching(asset_cpe, affected_products) ==
  LET vuln_cpe_list == extract_cpe_from_vulnerability(affected_products)
      version_ranges ==
        IF Truthy(affected_products)
        THEN DictGet(affected_products.v, "version_ranges", JDict(EmptyDict))
        ELSE JDict(EmptyDict)
      asset_parts == extract_cpe_parts(asset_cpe)
  IN IF vuln_cpe_list.t # "list" THEN "raise"
     ELSE IF \E i \in 1..Len(vuln_cpe_list.v) : match_exact(asset_cpe, vuln_cpe_list.v[i])
          THEN "exact_match"
     ELSE IF Truthy(version_ranges) /\ asset_parts.ok
             /\ match_version_range(asset_parts.vendor, asset_parts.product,
                                    asset_parts.version, version_ranges)
          THEN "version_range"
     ELSE IF \E i \in 1..Len(vuln_cpe_list.v) : match_wildcard(asset_cpe, vuln_cpe_list.v[i])
          THEN "wildcard_match"
     ELSE "None"

(***************************************************************************)
(* Input universes of the predicates and of the resolver                   *)
(***************************************************************************)
MaxCpeListLen == 2

V_10 == <<"1", ".", "0">>
V_15 == <<"1", ".", "5">>
V_2 == <<"2">>
V_20 == <<"2", ".", "0">>
V_invalid == <<"i", "n", "v", "a", "l", "i", "d">>

Stars(n) == [i \in 1..n |-> S_star]

\* a serialized identifier with the given leading fields and n trailing "*"
CpeOf(fields, n) == Join(fields \o Stars(n), ":")

Cpe_nginx_10 == CpeOf(<<S_cpe, S_23, <<"a">>, S_nginx, S_nginx, V_10>>, 7)
Cpe_nginx_15 == CpeOf(<<S_cpe, S_23, <<"a">>, S_nginx, S_nginx, V_15>>, 7)
Cpe_nginx_any == CpeOf(<<S_cpe, S_23, <<"a">>, S_nginx, S_nginx>>, 8)
Cpe_httpd_20 == CpeOf(<<S_cpe, S_23, <<"a">>, S_apache, S_httpd, V_20>>, 7)
Cpe_hw_nginx_any == CpeOf(<<S_cpe, S_23, <<"h">>, S_nginx, S_nginx>>, 8)
\* identifiers of imported assets with a concrete update field / language field
Cpe_nginx_10_sp1 ==
  CpeOf(<<S_cpe, S_23, <<"a">>, S_nginx, S_nginx, V_10, <<"s", "p", "1">>>>, 6)
Cpe_nginx_10_en ==
  Join(<<S_cpe, S_23, <<"a">>, S_nginx, S_nginx, V_10, S_star, S_star, <<"e", "n">>,
         S_star, S_star, S_star, S_star>>, ":")
\* malformed identifiers: too few fields, wrong scheme marker, no structure
Cpe_short == Join(<<S_cpe, S_23, <<"a">>, S_nginx>>, ":")
Cpe_trunc_10 == CpeOf(<<S_cpe, S_23, <<"a">>, S_nginx, S_nginx, V_10>>, 2)
Cpe_badscheme_any == CpeOf(<<<<"x">>, S_23, <<"a">>, S_nginx, S_nginx>>, 8)
Cpe_garbage == V_invalid

WellFormedIds == {Cpe_nginx_10, Cpe_nginx_15, Cpe_nginx_any, Cpe_httpd_20, Cpe_hw_nginx_any}
MalformedIds == {Cpe_short, Cpe_trunc_10, Cpe_badscheme_any, Cpe_garbage}
VulnCpes == WellFormedIds \cup MalformedIds

AssetVersions == {V_10, V_15, V_2, V_invalid}
AssetCpes ==
  {generate_cpe_from_manual(S_nginx, S_nginx, v) : v \in AssetVersions}
    \cup {generate_cpe_from_manual(S_apache, S_httpd, V_20)}
    \cup {Cpe_nginx_10_sp1, Cpe_nginx_10_en}
    \cup {Cpe_short, Cpe_garbage, Cpe_badscheme_any}

\* a range descriptor: dict from bound keys to version strings
Range(d) == JDict(d)
R_10_to_20 == Range(("versionStartIncluding" :> V_10) @@ ("versionEndExcluding" :> V_20))
R_upto_15 == Range("versionEndIncluding" :> V_15)
R_after_10 == Range("versionStartExcluding" :> V_10)
R_badbound == Range(("versionStartIncluding" :> V_10) @@ ("versionEndExcluding" :> V_invalid))
R_nokeys == Range(EmptyDict)
R_otherkey == Range("invalid_key" :> V_10)

RangeDescriptors == {R_10_to_20, R_upto_15, R_after_10, R_badbound, R_nokeys, R_otherkey}

Key_nginx_nginx == S_nginx \o <<":">> \o S_nginx

\* the values of "version_ranges"
VersionRanges ==
  {JDict(EmptyDict)}
    \cup {JDict(S_nginx :> r) : r \in RangeDescriptors}
    \cup {JDict(Key_nginx_nginx :> R_10_to_20),
          JDict(S_httpd :> R_10_to_20),
          JDict((S_nginx :> R_nokeys) @@ (Key_nginx_nginx :> R_upto_15))}

RECURSIVE SeqsUpTo(_, _)
SeqsUpTo(S, n) ==
  IF n = 0 THEN {<<>>}
  ELSE LET shorter == SeqsUpTo(S, n - 1)
       IN shorter \cup {Append(q, x) : q \in {r \in shorter : Len(r) = n - 1}, x \in S}

CpeLists == {JList(l) : l \in SeqsUpTo(VulnCpes, MaxCpeListLen)}

\* the values of the affected_products column: null, {}, and dicts with any
\* subset of the two keys; "cpe": null is a corrupt stored record
AffectedProducts ==
  {JNull, JDict(EmptyDict)}
    \cup {JDict("cpe" :> c) : c \in CpeLists \cup {JNull}}
    \cup {JDict("version_ranges" :> r) : r \in VersionRanges}
    \cup {JDict(("cpe" :> c) @@ ("version_ranges" :> r)) :
            c \in CpeLists \cup {JNull}, r \in VersionRanges}

(***************************************************************************)
(* State                                                                   *)
(***************************************************************************)
VARIABLES
  assets,           \* table "assets": asset_id -> row
  vulnerabilities,  \* table "vulnerabilities": cve_id -> affected_products
  vulnerability_rows, \* the other columns of the rows of table "vulnerabilities"
  fetcher,          \* the call of JVNFetcherService.fetch_vulnerabilities in progress
  matches,          \* table "asset_vulnerability_matches": committed rows
  next_asset_id,    \* uuid4() of the next asset row
  next_match_id,    \* gen_random_uuid() of the next match row
  clock,            \* datetime.now()
  requests,         \* requests served by the asset and advisory endpoints
  run,              \* the invocations of execute_full_matching in progress
  response,         \* the last exchange of the asset endpoints
  p_fn,             \* a pure function under test ...
  p_args,           \* ... its arguments ...
  p_ret,            \* ... and what it returned: a truth value, a kind, or "value"
  p_val             \* the dict or the string it returned, when p_ret is "value"

sysvars == <<assets, vulnerabilities, matches, next_asset_id, next_match_id, clock, requests, run,
             response, vulnerability_rows, fetcher>>
purevars == <<p_fn, p_args, p_ret, p_val>>
vars == <<assets, vulnerabilities, matches, next_asset_id, next_match_id, clock, requests, run,
          response, vulnerability_rows, fetcher, p_fn, p_args, p_ret, p_val>>

Bool(b) == IF b THEN "True" ELSE "False"

(***************************************************************************)
(* Calls of the predicates and of the resolver on enumerated arguments     *)
(***************************************************************************)
CallMatchExact ==
  /\ p_fn = "match_exact" /\ p_ret = "pending"
  /\ p_ret' = Bool(match_exact(p_args.asset_cpe, p_args.vulnerability_cpe))
  /\ UNCHANGED <<p_fn, p_args, p_val, sysvars>>

CallMatchWildcard ==
  /\ p_fn = "match_wildcard" /\ p_ret = "pending"
  /\ p_ret' = Bool(match_wildcard(p_args.asset_cpe, p_args.vulnerability_cpe))
  /\ UNCHANGED <<p_fn, p_args, p_val, sysvars>>

CallMatchVersionRange ==
  /\ p_fn = "match_version_range" /\ p_ret = "pending"
  /\ p_ret' = Bool(match_version_range(p_args.asset_vendor, p_args.asset_product,
                                       p_args.asset_version, p_args.vulnerability_ranges))
  /\ UNCHANGED <<p_fn, p_args, p_val, sysvars>>

CallExecuteMatching ==
  /\ p_fn = "execute_matching" /\ p_ret = "pending"
  /\ p_ret' = execute_matching(p_args.asset_cpe, p_args.affected_products)
  /\ UNCHANGED <<p_fn, p_args, p_val, sysvars>>

CallExtractCpeParts ==
  /\ p_fn = "extract_cpe_parts" /\ p_ret = "pending"
  /\ p_ret' = "value"
  /\ p_val' = extract_cpe_parts(p_args.cpe_code)
  /\ UNCHANGED <<p_fn, p_args, sysvars>>

CallGenerateCpeFromManual ==
  /\ p_fn = "generate_cpe_from_manual" /\ p_ret = "pending"
  /\ p_ret' = "value"
  /\ p_val' = generate_cpe_from_manual(p_args.vendor, p_args.product, p_args.version)
  /\ UNCHANGED <<p_fn, p_args, sysvars>>

(***************************************************************************)
(* The database and the requests that change it                            *)
(***************************************************************************)
MaxClock == 3
MaxRequests == 1
MaxAssetId == 2

Runners == {"r1", "r2"}
CveIds == {"CVE-1", "CVE-2"}

\* what the registration form is given in the model
NewAssets ==
  {[asset_name |-> S_web, vendor |-> S_nginx, product |-> S_nginx, version |-> v] :
      v \in {V_10, V_15}}
UpdateVersions == {V_10, V_15}
UpdateNames == {<<"w", "w", "w">>}

\* dependencies of the composer files, in the order of the file
S_nginx_nginx == S_nginx \o <<"/">> \o S_nginx
ComposerFiles ==
  {<<<<S_nginx_nginx, <<"^">> \o V_10>>>>,
   <<<<S_nginx_nginx, <<"^">> \o V_10>>, <<S_nginx, V_10>>>>,
   <<<<S_php, <<">", "=", "8">>>>, <<S_nginx_nginx, V_15>>>>,
   <<<<S_nginx_nginx, <<" ", "^">> \o V_10>>>>}

\* dependencies of the npm files
NpmFiles ==
  {<<<<S_react, <<"^">> \o V_10>>>>,
   <<<<S_nginx, <<"~">> \o V_10>>, <<<<"@", "x", "/">> \o S_nginx, V_10>>>>}

\* (image, tag) of the FROM instructions of the Dockerfiles; the tag is empty when absent
DockerFiles ==
  {<<<<S_nginx, V_10 \o <<"-", "a", "l", "p", "i", "n", "e">>>>>>,
   <<<<S_scratch, <<>>>>, <<S_nginx, <<>>>>>>,
   <<<<S_nginx, V_15>>, <<S_nginx, V_15>>>>,
   <<<<S_httpd, V_10>>, <<S_apache, V_10>>>>}

\* affected_products values the ingestion stores in the model
AP_exact15_wild == JDict("cpe" :> JList(<<Cpe_nginx_15, Cpe_nginx_any>>))
AP_range_after10 == JDict(("cpe" :> JList(<<>>))
                          @@ ("version_ranges" :> JDict(S_nginx :> R_after_10)))
AP_corrupt == JDict("cpe" :> JNull)
StoredAdvisories == {AP_exact15_wild, AP_range_after10, AP_corrupt}

\* all orders in which a query without ORDER BY can return the rows of S
RECURSIVE Orders(_)
Orders(S) ==
  IF S = {} THEN {<<>>}
  ELSE UNION {{<<x>> \o q : q \in Orders(S \ {x})} : x \in S}

Strip(s) == StripTrailing(StripLeading(s, {" "}), {" "})

\* a table without the constraint
ViolatesAssetUnique_absent(table, id, row) == FALSE

\* UniqueConstraint("vendor", "product", "version")
ViolatesAssetUnique(table, id, row) ==
  \E other \in DOMAIN table :
     /\ other # id
     /\ table[other].vendor = row.vendor
     /\ table[other].product = row.product
     /\ table[other].version = row.version

\* keys of the match rows an open transaction has written (and locked)
LockedKeys(r) ==
  IF run[r].pc \in {"upsert", "commit"}
  THEN {<<run[r].matches[i].asset_id, run[r].matches[i].cve_id>> : i \in 1..(run[r].pos - 1)}
  ELSE {}

AssetLocked(id) == \E r \in Runners : \E k \in LockedKeys(r) : k[1] = id
CveLocked(cve) == \E r \in Runners : \E k \in LockedKeys(r) : k[2] = cve

NoResponse == [endpoint |-> "none"]

\* variant of the handler that correlates the new asset with the stored
\* advisories right away and stores the match rows
create_asset_eager_matching(asset_data) ==
  /\ requests < MaxRequests
  /\ next_asset_id <= MaxAssetId
  /\ LET vendor == Strip(asset_data.vendor)
         product == Strip(asset_data.product)
         version == Strip(asset_data.version)
         asset == [asset_name |-> Strip(asset_data.asset_name), vendor |-> vendor,
                   product |-> product, version |-> version,
                   cpe_code |-> generate_cpe_from_manual(vendor, product, version),
                   source |-> "manual"]
         matched == {c \in DOMAIN vulnerabilities :
                       execute_matching(asset.cpe_code, vulnerabilities[c])
                         \notin {"None", "raise"}}
     IN IF ViolatesAssetUnique(assets, next_asset_id, asset)
        THEN /\ UNCHANGED <<assets, next_asset_id, matches>>
             /\ response' = [endpoint |-> "create_asset", request |-> asset_data,
                             status |-> 400]
        ELSE /\ assets' = assets @@ (next_asset_id :> asset)
             /\ next_asset_id' = next_asset_id + 1
             /\ matches' = matches \cup
                  {[match_id |-> next_match_id + (IF c = "CVE-1" THEN 0 ELSE 1),
                    asset_id |-> next_asset_id, cve_id |-> c,
                    match_reason |-> execute_matching(asset.cpe_code, vulnerabilities[c]),
                    matched_at |-> clock] : c \in matched}
             /\ response' = [endpoint |-> "create_asset", request |-> asset_data,
                             status |-> 201]
  /\ requests' = requests + 1
  /\ UNCHANGED <<vulnerabilities, next_match_id, clock, run, vulnerability_rows, fetcher, purevars>>

\* POST /api/assets: 201, or 400 when the commit raises IntegrityError
create_asset(asset_data) ==
  /\ requests < MaxRequests
  /\ next_asset_id <= MaxAssetId
  /\ LET vendor == Strip(asset_data.vendor)
         product == Strip(asset_data.product)
         version == Strip(asset_data.version)
         asset == [asset_name |-> Strip(asset_data.asset_name), vendor |-> vendor,
                   product |-> product, version |-> version,
                   cpe_code |-> generate_cpe_from_manual(vendor, product, version),
                   source |-> "manual"]
     IN IF ViolatesAssetUnique(assets, next_asset_id, asset)
        THEN /\ UNCHANGED <<assets, next_asset_id>>
             /\ response' = [endpoint |-> "create_asset", request |-> asset_data,
                             status |-> 400]
        ELSE /\ assets' = assets @@ (next_asset_id :> asset)
             /\ next_asset_id' = next_asset_id + 1
             /\ response' = [endpoint |-> "create_asset", request |-> asset_data,
                             status |-> 201]
  /\ requests' = requests + 1
  /\ UNCHANGED <<vulnerabilities, matches, next_match_id, clock, run, vulnerability_rows,
                 fetcher, purevars>>

\* PUT /api/assets/{asset_id}; name and version are None when not supplied;
\* 404 for an unknown id, 400 when the commit raises IntegrityError
update_asset(asset_id, has_name, asset_name, has_version, version) ==
  /\ requests < MaxRequests
  /\ LET request == [asset_id |-> asset_id, has_name |-> has_name, asset_name |-> asset_name,
                     has_version |-> has_version, version |-> version]
     IN IF asset_id \notin DOMAIN assets
        THEN /\ UNCHANGED assets
             /\ response' = [endpoint |-> "update_asset", request |-> request, status |-> 404]
        ELSE LET a0 == assets[asset_id]
                 a1 == IF has_name THEN [a0 EXCEPT !.asset_name = Strip(asset_name)] ELSE a0
                 a2 == IF has_version
                       THEN [a1 EXCEPT !.version = Strip(version),
                                       !.cpe_code =
                                          generate_cpe_from_manual(a1.vendor, a1.product,
                                                                   Strip(version))]
                       ELSE a1
             IN IF ViolatesAssetUnique(assets, asset_id, a2)
                THEN /\ UNCHANGED assets
                     /\ response' = [endpoint |-> "update_asset", request |-> request,
                                     status |-> 400]
                ELSE /\ assets' = [assets EXCEPT ![asset_id] = a2]
                     /\ response' = [endpoint |-> "update_asset", request |-> request,
                                     status |-> 200]
  /\ requests' = requests + 1
  /\ UNCHANGED <<vulnerabilities, matches, next_asset_id, next_match_id, clock, run, vulnerability_rows,
                 fetcher, purevars>>

\* variant of the handler without the cascade to the match rows
delete_asset_no_cascade(asset_id) ==
  /\ requests < MaxRequests
  /\ ~AssetLocked(asset_id)
  /\ requests' = requests + 1
  /\ IF asset_id \notin DOMAIN assets
     THEN /\ UNCHANGED <<assets, matches>>
          /\ response' = [endpoint |-> "delete_asset", request |-> [asset_id |-> asset_id],
                          status |-> 404]
     ELSE /\ assets' = [id \in DOMAIN assets \ {asset_id} |-> assets[id]]
          /\ UNCHANGED matches
          /\ response' = [endpoint |-> "delete_asset", request |-> [asset_id |-> asset_id],
                          status |-> 204]
  /\ UNCHANGED <<vulnerabilities, next_asset_id, next_match_id, clock, run, vulnerability_rows,
                 fetcher, purevars>>

\* DELETE /api/assets/{asset_id}: 404 for an unknown id; cascade="all, delete-orphan"
\* and ON DELETE CASCADE remove the match rows of the asset.
\* The delete waits for transactions that hold locks on rows referencing the asset.
delete_asset(asset_id) ==
  /\ requests < MaxRequests
  /\ ~AssetLocked(asset_id)
  /\ requests' = requests + 1
  /\ IF asset_id \notin DOMAIN assets
     THEN /\ UNCHANGED <<assets, matches>>
          /\ response' = [endpoint |-> "delete_asset", request |-> [asset_id |-> asset_id],
                          status |-> 404]
     ELSE /\ assets' = [id \in DOMAIN assets \ {asset_id} |-> assets[id]]
          /\ matches' = {m \in matches : m.asset_id # asset_id}
          /\ response' = [endpoint |-> "delete_asset", request |-> [asset_id |-> asset_id],
                          status |-> 204]
  /\ UNCHANGED <<vulnerabilities, next_asset_id, next_match_id, clock, run, vulnerability_rows,
                 fetcher, purevars>>

\* db.add(asset); db.commit(); imported_count += 1, or on IntegrityError
\* db.rollback(); skipped_count += 1
AddAndCommit(st, asset) ==
  IF ViolatesAssetUnique(st.assets, st.next_asset_id, asset)
  THEN [st EXCEPT !.skipped_count = @ + 1]
  ELSE [st EXCEPT !.assets = @ @@ (st.next_asset_id :> asset),
                  !.next_asset_id = @ + 1,
                  !.imported_count = @ + 1]

ImportStart == [assets |-> assets, next_asset_id |-> next_asset_id,
                imported_count |-> 0, skipped_count |-> 0]

\* the body of the loop of import_composer for one item of dependencies
composer_entry(st, item) ==
  LET package_name == item[1]
      version_spec == item[2]
  IN IF package_name = S_php THEN st
     ELSE AddAndCommit(st, [asset_name |-> package_name,
                            vendor |-> composer_vendor(package_name),
                            product |-> composer_product(package_name),
                            version |-> normalize_version(version_spec),
                            cpe_code |-> generate_cpe_from_composer(package_name, version_spec),
                            source |-> "composer"])

\* the body of the loop of import_npm for one item of dependencies
npm_entry(st, item) ==
  LET package_name == item[1]
      version_spec == item[2]
  IN AddAndCommit(st, [asset_name |-> package_name,
                       vendor |-> Get(NPM_VENDOR_MAP, package_name, S_npmjs),
                       product |-> npm_product(package_name),
                       version |-> normalize_version(version_spec),
                       cpe_code |-> generate_cpe_from_npm(package_name, version_spec),
                       source |-> "npm"])

\* the body of the loop of import_docker for one FROM instruction
docker_entry(st, item) ==
  LET image_name == item[1]
      image_tag == IF item[2] = <<>> THEN S_latest ELSE item[2]
  IN IF Lower(image_name) = S_scratch THEN st
     ELSE AddAndCommit(st, [asset_name |-> <<"D", "o", "c", "k", "e", "r", ":", " ">>
                                             \o image_name \o <<":">> \o image_tag,
                            vendor |-> Get(DOCKER_VENDOR_MAP, image_name, S_docker),
                            product |-> image_name,
                            version |-> normalize_version(image_tag),
                            cpe_code |-> generate_cpe_from_docker(image_name, image_tag),
                            source |-> "docker"])

\* for item in items: body(st, item)
RECURSIVE ImportLoop(_, _, _)
ImportLoop(endpoint, items, st) ==
  IF items = <<>> THEN st
  ELSE ImportLoop(endpoint, Tail(items),
                  CASE endpoint = "import_composer" -> composer_entry(st, Head(items))
                    [] endpoint = "import_npm" -> npm_entry(st, Head(items))
                    [] endpoint = "import_docker" -> docker_entry(st, Head(items)))

\* every item of an import is committed on its own; the response is 201 with the counters
FileImportResponse(endpoint, items, st) ==
  [endpoint |-> endpoint, request |-> items, status |-> 201,
   imported_count |-> st.imported_count, skipped_count |-> st.skipped_count]

\* POST /api/assets/import/composer, from the dependencies read from the file on
import_composer(dependencies) ==
  /\ requests < MaxRequests
  /\ LET st == ImportLoop("import_composer", dependencies, ImportStart)
     IN /\ st.next_asset_id <= MaxAssetId + 1
        /\ assets' = st.assets
        /\ next_asset_id' = st.next_asset_id
        /\ response' = FileImportResponse("import_composer", dependencies, st)
  /\ requests' = requests + 1
  /\ UNCHANGED <<vulnerabilities, matches, next_match_id, clock, run, vulnerability_rows,
                 fetcher, purevars>>

\* POST /api/assets/import/npm, from the dependencies read from the file on
import_npm(dependencies) ==
  /\ requests < MaxRequests
  /\ LET st == ImportLoop("import_npm", dependencies, ImportStart)
     IN /\ st.next_asset_id <= MaxAssetId + 1
        /\ assets' = st.assets
        /\ next_asset_id' = st.next_asset_id
        /\ response' = FileImportResponse("import_npm", dependencies, st)
  /\ requests' = requests + 1
  /\ UNCHANGED <<vulnerabilities, matches, next_match_id, clock, run, vulnerability_rows,
                 fetcher, purevars>>

\* POST /api/assets/import/docker, from the FROM instructions read from the file on
import_docker(images) ==
  /\ requests < MaxRequests
  /\ LET st == ImportLoop("import_docker", images, ImportStart)
     IN /\ st.next_asset_id <= MaxAssetId + 1
        /\ assets' = st.assets
        /\ next_asset_id' = st.next_asset_id
        /\ response' = FileImportResponse("import_docker", images, st)
  /\ requests' = requests + 1
  /\ UNCHANGED <<vulnerabilities, matches, next_match_id, clock, run, vulnerability_rows,
                 fetcher, purevars>>

\* the row of an advisory stored before the first request of a behaviour
StoredRow(cve_id) ==
  [cve_id |-> cve_id, title |-> "t1", severity |-> "High", created_at |-> 0, updated_at |-> 0]

\* variant of the upsert that inserts without looking for the row of the identifier
upsert_vulnerability_insert_only(cve_id, title, severity, affected_products) ==
  /\ requests < MaxRequests
  /\ vulnerabilities' =
       [c \in DOMAIN vulnerabilities \cup {cve_id} |->
          IF c = cve_id THEN affected_products ELSE vulnerabilities[c]]
  /\ vulnerability_rows' =
       vulnerability_rows \cup
         {[cve_id |-> cve_id, title |-> title, severity |-> severity,
           created_at |-> clock, updated_at |-> clock]}
  /\ requests' = requests + 1
  /\ UNCHANGED <<assets, matches, next_asset_id, next_match_id, clock, run, response,
                 fetcher, purevars>>

\* DatabaseVulnerabilityService.upsert_vulnerability: insert a row with both
\* timestamps set to now, or update title, severity, affected_products and
\* updated_at of the row of the identifier in place
upsert_vulnerability(cve_id, title, severity, affected_products) ==
  /\ requests < MaxRequests
  /\ vulnerabilities' =
       [c \in DOMAIN vulnerabilities \cup {cve_id} |->
          IF c = cve_id THEN affected_products ELSE vulnerabilities[c]]
  /\ vulnerability_rows' =
       IF \E row \in vulnerability_rows : row.cve_id = cve_id
       THEN {IF row.cve_id = cve_id
             THEN [row EXCEPT !.title = title, !.severity = severity, !.updated_at = clock]
             ELSE row : row \in vulnerability_rows}
       ELSE vulnerability_rows \cup
              {[cve_id |-> cve_id, title |-> title, severity |-> severity,
                created_at |-> clock, updated_at |-> clock]}
  /\ requests' = requests + 1
  /\ UNCHANGED <<assets, matches, next_asset_id, next_match_id, clock, run, response,
                 fetcher, purevars>>

\* DatabaseVulnerabilityService.delete_vulnerability; match rows go with the
\* advisory through ForeignKey("vulnerabilities.cve_id", ondelete="CASCADE")
delete_vulnerability(cve_id) ==
  /\ requests < MaxRequests
  /\ cve_id \in DOMAIN vulnerabilities
  /\ ~CveLocked(cve_id)
  /\ requests' = requests + 1
  /\ vulnerabilities' = [c \in DOMAIN vulnerabilities \ {cve_id} |-> vulnerabilities[c]]
  /\ vulnerability_rows' = {row \in vulnerability_rows : row.cve_id # cve_id}
  /\ matches' = {m \in matches : m.cve_id # cve_id}
  /\ UNCHANGED <<assets, next_asset_id, next_match_id, clock, run, response, fetcher, purevars>>

\* time passes between two requests
Tick ==
  /\ clock < MaxClock
  /\ clock' = clock + 1
  /\ UNCHANGED <<assets, vulnerabilities, vulnerability_rows, matches, next_asset_id,
                 next_match_id, requests, run, response, fetcher, purevars>>

(***************************************************************************)
(* execute_full_matching, one invocation per runner                        *)
(***************************************************************************)
ZeroStats == [exact_match |-> 0, version_range |-> 0, wildcard_match |-> 0]
NoResult == [returned |-> FALSE]

NoPrevious == [result |-> NoResult, since |-> 0]

\* pc, the locals of the function (assets, vulnerabilities, matches,
\* match_stats, pos = index of the next statement of the upsert loop), and
\* what the caller has seen: the statistics returned (result) or the failure
\* (error), the number of asset/advisory requests served before the inputs
\* were read (since), and the same for the invocation before this one (previous)
IdleRun == [pc |-> "idle", assets |-> <<>>, vulnerabilities |-> <<>>,
            matches |-> <<>>, match_stats |-> ZeroStats, pos |-> 1,
            result |-> NoResult, error |-> "none",
            since |-> 0, previous |-> NoPrevious]

\* the invocation has returned its statistics / has raised (HTTP 500, and
\* get_db rolls the session back); its locals are gone
Returned(rn, stats) ==
  [IdleRun EXCEPT !.pc = "done", !.result = stats,
                  !.since = rn.since, !.previous = rn.previous]
Failed(rn, error) == [IdleRun EXCEPT !.pc = "failed", !.error = error, !.pos = rn.pos]

\* the nested loop of lines 281-293 from pair (i, j) on; raised is set by the
\* first resolver call that raises, which ends the loop
RECURSIVE MatchLoop(_, _, _, _, _)
MatchLoop(as, vs, i, j, acc) ==
  IF i > Len(as) THEN acc
  ELSE IF j > Len(vs) THEN MatchLoop(as, vs, i + 1, 1, acc)
  ELSE LET match_reason == execute_matching(as[i].cpe_code, vs[j].affected_products) IN
       IF match_reason = "raise" THEN [acc EXCEPT !.raised = TRUE]
       ELSE IF match_reason # "None"
       THEN MatchLoop(as, vs, i, j + 1,
              [acc EXCEPT !.matches = Append(@, [asset_id |-> as[i].asset_id,
                                                 cve_id |-> vs[j].cve_id,
                                                 match_reason |-> match_reason,
                                                 matched_at |-> clock]),
                          !.match_stats[match_reason] = @ + 1])
       ELSE MatchLoop(as, vs, i, j + 1, acc)

\* variant of the statistics that counts wildcard matches as exact ones
Statistics_miskeyed(rn) ==
  [returned |-> TRUE,
   total_assets |-> Len(rn.assets),
   total_vulnerabilities |-> Len(rn.vulnerabilities),
   total_matches |-> Len(rn.matches),
   exact_matches |-> rn.match_stats.exact_match + rn.match_stats.wildcard_match,
   version_range_matches |-> rn.match_stats.version_range,
   wildcard_matches |-> 0]

\* the dictionary of lines 314-321
Statistics(rn) ==
  [returned |-> TRUE,
   total_assets |-> Len(rn.assets),
   total_vulnerabilities |-> Len(rn.vulnerabilities),
   total_matches |-> Len(rn.matches),
   exact_matches |-> rn.match_stats.exact_match,
   version_range_matches |-> rn.match_stats.version_range,
   wildcard_matches |-> rn.match_stats.wildcard_match]

\* variant of the statement without the ON CONFLICT clause and without the
\* unique constraint: a plain INSERT
UpsertRow_insert_only(table, m, match_id) ==
  table \cup {[match_id |-> match_id, asset_id |-> m.asset_id, cve_id |-> m.cve_id,
               match_reason |-> m.match_reason, matched_at |-> m.matched_at]}

\* variant of the statement with ON CONFLICT ... DO NOTHING
UpsertRow_do_nothing(table, m, match_id) ==
  IF \E row \in table : row.asset_id = m.asset_id /\ row.cve_id = m.cve_id
  THEN table
  ELSE table \cup {[match_id |-> match_id, asset_id |-> m.asset_id, cve_id |-> m.cve_id,
                    match_reason |-> m.match_reason, matched_at |-> m.matched_at]}

\* variant of the statement whose DO UPDATE also overwrites match_id
UpsertRow_new_id(table, m, match_id) ==
  IF \E row \in table : row.asset_id = m.asset_id /\ row.cve_id = m.cve_id
  THEN {IF row.asset_id = m.asset_id /\ row.cve_id = m.cve_id
        THEN [row EXCEPT !.match_reason = m.match_reason, !.matched_at = m.matched_at,
                         !.match_id = match_id + 1]
        ELSE row : row \in table}
  ELSE table \cup {[match_id |-> match_id, asset_id |-> m.asset_id, cve_id |-> m.cve_id,
                    match_reason |-> m.match_reason, matched_at |-> m.matched_at]}

\* INSERT ... ON CONFLICT (asset_id, cve_id) DO UPDATE SET match_reason, matched_at
UpsertRow(table, m, match_id) ==
  IF \E row \in table : row.asset_id = m.asset_id /\ row.cve_id = m.cve_id
  THEN {IF row.asset_id = m.asset_id /\ row.cve_id = m.cve_id
        THEN [row EXCEPT !.match_reason = m.match_reason, !.matched_at = m.matched_at]
        ELSE row : row \in table}
  ELSE table \cup {[match_id |-> match_id, asset_id |-> m.asset_id, cve_id |-> m.cve_id,
                    match_reason |-> m.match_reason, matched_at |-> m.matched_at]}

HasKey(table, m) == \E row \in table : row.asset_id = m.asset_id /\ row.cve_id = m.cve_id

\* variant of the transaction that deletes the rows of its keys and inserts
\* fresh ones
RECURSIVE ApplyUpserts_delete_insert(_, _, _)
ApplyUpserts_delete_insert(table, ms, match_id) ==
  IF ms = <<>> THEN [table |-> table, next |-> match_id]
  ELSE ApplyUpserts_delete_insert(
         {row \in table : ~(row.asset_id = Head(ms).asset_id /\ row.cve_id = Head(ms).cve_id)}
           \cup {[match_id |-> match_id, asset_id |-> Head(ms).asset_id,
                  cve_id |-> Head(ms).cve_id, match_reason |-> Head(ms).match_reason,
                  matched_at |-> Head(ms).matched_at]},
         Tail(ms), match_id + 1)

\* the effect of the statements of one transaction, in order; every inserted
\* row takes a fresh gen_random_uuid()
RECURSIVE ApplyUpserts(_, _, _)
ApplyUpserts(table, ms, match_id) ==
  IF ms = <<>> THEN [table |-> table, next |-> match_id]
  ELSE ApplyUpserts(UpsertRow(table, Head(ms), match_id), Tail(ms),
                    IF HasKey(table, Head(ms)) THEN match_id ELSE match_id + 1)

InProgress(r) == run[r].pc \notin {"idle", "done", "failed"}

\* a new request is served by the first worker that is not serving one
FreeRunner == IF ~InProgress("r1") THEN "r1" ELSE "r2"

\* db.query(Asset).all()
QueryAssets(r) ==
  /\ r = FreeRunner
  /\ run[r].pc \in {"idle", "done", "failed"}
  /\ clock < MaxClock
  /\ \E order \in Orders(DOMAIN assets) :
       run' = [run EXCEPT ![r] =
                 [IdleRun EXCEPT !.pc = "query_vulnerabilities",
                                 !.since = requests,
                                 !.previous = IF run[r].pc = "done"
                                              THEN [result |-> run[r].result,
                                                    since |-> run[r].since]
                                              ELSE NoPrevious,
                                 !.assets = [i \in 1..Len(order) |->
                                               [asset_id |-> order[i],
                                                cpe_code |-> assets[order[i]].cpe_code]]]]
  /\ clock' = clock + 1
  /\ UNCHANGED <<assets, vulnerabilities, matches, next_asset_id,
                 next_match_id, requests, response, vulnerability_rows, fetcher, purevars>>

\* db.query(Vulnerability).all()
QueryVulnerabilities(r) ==
  /\ run[r].pc = "query_vulnerabilities"
  /\ \E order \in Orders(DOMAIN vulnerabilities) :
       run' = [run EXCEPT ![r].pc = "match",
                          ![r].vulnerabilities =
                             [i \in 1..Len(order) |->
                                [cve_id |-> order[i],
                                 affected_products |-> vulnerabilities[order[i]]]]]
  /\ UNCHANGED <<assets, vulnerabilities, matches, next_asset_id,
                 next_match_id, clock, requests, response, vulnerability_rows, fetcher, purevars>>

\* lines 277-295; an exception of the resolver leaves the function, and the
\* endpoint turns it into HTTP 500
MatchPairs(r) ==
  /\ run[r].pc = "match"
  /\ LET acc == MatchLoop(run[r].assets, run[r].vulnerabilities, 1, 1,
                          [matches |-> <<>>, match_stats |-> ZeroStats, raised |-> FALSE])
     IN IF acc.raised
        THEN run' = [run EXCEPT ![r] = Failed(run[r], "resolver")]
        ELSE LET rn == [run[r] EXCEPT !.matches = acc.matches,
                                      !.match_stats = acc.match_stats]
             IN IF acc.matches = <<>>
                THEN run' = [run EXCEPT ![r] = Returned(rn, Statistics(rn))]
                ELSE run' = [run EXCEPT ![r] = [rn EXCEPT !.pc = "upsert", !.pos = 1]]
  /\ UNCHANGED <<assets, vulnerabilities, matches, next_asset_id,
                 next_match_id, clock, requests, response, vulnerability_rows, fetcher, purevars>>

NextKey(r) == <<run[r].matches[run[r].pos].asset_id, run[r].matches[run[r].pos].cve_id>>

\* the statement waits while another open transaction holds the row of its key
Blocked(r) ==
  /\ run[r].pc = "upsert"
  /\ \E o \in Runners \ {r} : NextKey(r) \in LockedKeys(o)

\* variant of the statement on a session with autocommit: the row is visible
\* as soon as the statement has run
Upsert_autocommit(r) ==
  /\ run[r].pc = "upsert"
  /\ ~Blocked(r)
  /\ IF NextKey(r)[1] \in DOMAIN assets /\ NextKey(r)[2] \in DOMAIN vulnerabilities
     THEN /\ run' = [run EXCEPT ![r].pos = @ + 1,
                                ![r].pc = IF run[r].pos = Len(run[r].matches)
                                          THEN "commit" ELSE "upsert"]
          /\ matches' = UpsertRow(matches, run[r].matches[run[r].pos], next_match_id)
          /\ next_match_id' = IF HasKey(matches, run[r].matches[run[r].pos])
                              THEN next_match_id ELSE next_match_id + 1
     ELSE /\ run' = [run EXCEPT ![r] = Failed(run[r], "integrity")]
          /\ UNCHANGED <<matches, next_match_id>>
  /\ UNCHANGED <<assets, vulnerabilities, next_asset_id, clock, requests, response, vulnerability_rows,
                 fetcher, purevars>>

\* db.execute(INSERT ... ON CONFLICT ...) of lines 299-310, one statement
Upsert(r) ==
  /\ run[r].pc = "upsert"
  /\ ~Blocked(r)
  /\ IF NextKey(r)[1] \in DOMAIN assets /\ NextKey(r)[2] \in DOMAIN vulnerabilities
     THEN run' = [run EXCEPT ![r].pos = @ + 1,
                             ![r].pc = IF run[r].pos = Len(run[r].matches)
                                       THEN "commit" ELSE "upsert"]
     ELSE \* foreign key violation: IntegrityError, the session is rolled back
          run' = [run EXCEPT ![r] = Failed(run[r], "integrity")]
  /\ UNCHANGED <<assets, vulnerabilities, matches, next_asset_id,
                 next_match_id, clock, requests, response, vulnerability_rows, fetcher, purevars>>

\* the database ends a cycle of waiting transactions by failing one of them
Deadlock(r) ==
  /\ Blocked(r)
  /\ \E o \in Runners \ {r} : NextKey(r) \in LockedKeys(o) /\ Blocked(o)
                              /\ NextKey(o) \in LockedKeys(r)
  /\ run' = [run EXCEPT ![r] = Failed(run[r], "deadlock")]
  /\ UNCHANGED <<assets, vulnerabilities, matches, next_asset_id,
                 next_match_id, clock, requests, response, vulnerability_rows, fetcher, purevars>>

\* variant of the engine that answers a connection loss by running its
\* statements again from the first one
PersistenceFailure_retry(r) ==
  /\ run[r].pc \in {"upsert", "commit"}
  /\ run' = [run EXCEPT ![r].pc = "upsert", ![r].pos = 1]
  /\ UNCHANGED <<assets, vulnerabilities, matches, next_asset_id,
                 next_match_id, clock, requests, response, vulnerability_rows, fetcher, purevars>>

\* connection loss during a statement or the commit: OperationalError, rollback
PersistenceFailure(r) ==
  /\ run[r].pc \in {"upsert", "commit"}
  /\ run' = [run EXCEPT ![r] = Failed(run[r], "persistence")]
  /\ UNCHANGED <<assets, vulnerabilities, matches, next_asset_id,
                 next_match_id, clock, requests, response, vulnerability_rows, fetcher, purevars>>

\* variant of the transaction that also deletes the stored rows of the pairs
\* the invocation did not match
Commit_delete_unmatched(r) ==
  /\ run[r].pc = "commit"
  /\ LET kept == {row \in matches :
                    \E i \in 1..Len(run[r].matches) :
                       /\ run[r].matches[i].asset_id = row.asset_id
                       /\ run[r].matches[i].cve_id = row.cve_id}
         applied == ApplyUpserts(kept, run[r].matches, next_match_id)
     IN /\ matches' = applied.table
        /\ next_match_id' = applied.next
  /\ run' = [run EXCEPT ![r] = Returned(run[r], Statistics(run[r]))]
  /\ UNCHANGED <<assets, vulnerabilities, next_asset_id, clock, requests, response, vulnerability_rows,
                 fetcher, purevars>>

\* db.commit() of line 311 and the return of lines 314-321
Commit(r) ==
  /\ run[r].pc = "commit"
  /\ LET applied == ApplyUpserts(matches, run[r].matches, next_match_id)
     IN /\ matches' = applied.table
        /\ next_match_id' = applied.next
  /\ run' = [run EXCEPT ![r] = Returned(run[r], Statistics(run[r]))]
  /\ UNCHANGED <<assets, vulnerabilities, next_asset_id, clock, requests, response, vulnerability_rows,
                 fetcher, purevars>>

(***************************************************************************)
(* JVNFetcherService (fetchers/jvn_fetcher.py).  A page is the list of     *)
(* records _parse_xml_response builds from one response: one record per    *)
(* CVE id of every item.  The model keeps the length of every list.        *)
(***************************************************************************)
items_per_page == 50
max_retries == 3
retry_delay == 5

\* no call of fetch_vulnerabilities in progress
IdleFetcher ==
  [pc |-> "idle", max_items |-> 0, all_vulnerabilities |-> 0, start_item |-> 1,
   max_count |-> 0, attempt |-> 0, slept |-> <<>>, error |-> "none", raised |-> "none"]

\* variant of _handle_retry_error that only logs
handle_retry_error_log_only(error, attempt) == "none"

\* _handle_retry_error: what it raises, "none" when it returns
handle_retry_error(error, attempt) ==
  IF attempt = max_retries
  THEN IF error = "TimeoutException" THEN "JVNAPIError"
       ELSE IF error = "JVNParseError" THEN "JVNParseError"
       ELSE "JVNAPIError"
  ELSE "none"

\* fetch_vulnerabilities(max_items = n) is called
fetch_vulnerabilities(n) ==
  /\ fetcher.pc = "idle"
  /\ fetcher' = [IdleFetcher EXCEPT !.pc = "while", !.max_items = n]
  /\ UNCHANGED <<assets, vulnerabilities, matches, next_asset_id, next_match_id, clock,
                 requests, run, response, vulnerability_rows, purevars>>

\* the top of the loop of fetch_vulnerabilities, up to the first request of
\* _fetch_page
fetch_vulnerabilities_loop ==
  /\ fetcher.pc = "while"
  /\ fetcher' =
       IF fetcher.all_vulnerabilities >= fetcher.max_items
       THEN [fetcher EXCEPT !.all_vulnerabilities = Min(@, fetcher.max_items),
                            !.pc = "returned"]
       ELSE [fetcher EXCEPT
               !.max_count = Min(items_per_page, fetcher.max_items - fetcher.all_vulnerabilities),
               !.attempt = 1, !.slept = <<>>, !.error = "none", !.pc = "request"]
  /\ UNCHANGED <<assets, vulnerabilities, matches, next_asset_id, next_match_id, clock,
                 requests, run, response, vulnerability_rows, purevars>>

\* what fetch_vulnerabilities does with the page _fetch_page returned
ExtendWithPage(f, page) ==
  IF page = 0 THEN [f EXCEPT !.pc = "returned"]
  ELSE IF page < items_per_page
       THEN [f EXCEPT !.all_vulnerabilities = @ + page, !.pc = "returned"]
  ELSE [f EXCEPT !.all_vulnerabilities = @ + page, !.start_item = @ + items_per_page,
                 !.pc = "while"]

\* an attempt of _fetch_page succeeds: the response parses into `page` records
fetch_page_returns(page) ==
  /\ fetcher.pc = "request"
  /\ fetcher' = ExtendWithPage([fetcher EXCEPT !.error = "none"], page)
  /\ UNCHANGED <<assets, vulnerabilities, matches, next_asset_id, next_match_id, clock,
                 requests, run, response, vulnerability_rows, purevars>>

\* an attempt of _fetch_page fails with one of the errors it catches
fetch_page_fails(error) ==
  /\ fetcher.pc = "request"
  /\ LET raised == handle_retry_error(error, fetcher.attempt)
         failed == [fetcher EXCEPT !.error = error]
     IN fetcher' =
          IF raised # "none"
          THEN [failed EXCEPT !.raised = raised, !.pc = "raised"]
          ELSE IF fetcher.attempt < max_retries
               THEN [failed EXCEPT
                       !.slept = Append(@, retry_delay * 2 ^ (fetcher.attempt - 1)),
                       !.attempt = @ + 1]
          ELSE ExtendWithPage(failed, 0)
  /\ UNCHANGED <<assets, vulnerabilities, matches, next_asset_id, next_match_id, clock,
                 requests, run, response, vulnerability_rows, purevars>>

(***************************************************************************)
(* Specifications                                                          *)
(***************************************************************************)
EmptyDb ==
  /\ assets = <<>>
  /\ vulnerabilities = [c \in {} |-> JNull]
  /\ vulnerability_rows = {}
  /\ matches = {}
  /\ next_asset_id = 1
  /\ next_match_id = 1
  /\ clock = 1
  /\ requests = 0
  /\ run = [r \in Runners |-> IdleRun]
  /\ response = NoResponse
  /\ fetcher = IdleFetcher

\* the row create_asset stores for a registration
AssetRow(asset_data) ==
  [asset_name |-> asset_data.asset_name, vendor |-> asset_data.vendor,
   product |-> asset_data.product, version |-> asset_data.version,
   cpe_code |-> generate_cpe_from_manual(asset_data.vendor, asset_data.product,
                                         asset_data.version),
   source |-> "manual"]

\* A database filled by registrations and ingestion before the first run of
\* the engine: assets 1..n with distinct (vendor, product, version), any
\* stored advisories, no match rows yet.
Init ==
  /\ \E n \in 0..MaxAssetId :
       /\ assets \in {t \in [1..n -> {AssetRow(d) : d \in NewAssets}] :
                        \A i, j \in 1..n : i # j => t[i].version # t[j].version}
       /\ next_asset_id = n + 1
  /\ vulnerabilities \in [CveIds -> StoredAdvisories]
  /\ vulnerability_rows = {StoredRow(c) : c \in CveIds}
  /\ matches = {}
  /\ next_match_id = 1
  /\ clock = 1
  /\ requests = 0
  /\ run = [r \in Runners |-> IdleRun]
  /\ response = NoResponse
  /\ fetcher = IdleFetcher
  /\ p_fn = "none" /\ p_args = <<>> /\ p_ret = "none" /\ p_val = <<>>

Next ==
  \/ \E asset_data \in NewAssets : create_asset(asset_data)
  \/ \E id \in 1..MaxAssetId, v \in UpdateVersions : update_asset(id, FALSE, <<>>, TRUE, v)
  \/ \E id \in 1..MaxAssetId : delete_asset(id)
  \/ QueryAssets("r1")
  \/ QueryVulnerabilities("r1")
  \/ MatchPairs("r1")
  \/ Upsert("r1")
  \/ PersistenceFailure("r1")
  \/ Commit("r1")

\* requests arrive one at a time at the matching endpoint, among the requests
\* of the asset endpoints
Spec == Init /\ [][Next]_vars

\* the same, and the ingestion stores and removes advisories
NextIngest ==
  \/ \E asset_data \in NewAssets : create_asset(asset_data)
  \/ \E id \in 1..MaxAssetId, v \in UpdateVersions : update_asset(id, FALSE, <<>>, TRUE, v)
  \/ \E id \in 1..MaxAssetId : delete_asset(id)
  \/ \E c \in CveIds, ap \in StoredAdvisories : upsert_vulnerability(c, "t1", "High", ap)
  \/ \E c \in CveIds : delete_vulnerability(c)
  \/ QueryAssets("r1")
  \/ QueryVulnerabilities("r1")
  \/ MatchPairs("r1")
  \/ Upsert("r1")
  \/ PersistenceFailure("r1")
  \/ Commit("r1")

SpecIngest == Init /\ [][NextIngest]_vars

\* the requests of the asset endpoints alone
NextAssets ==
  \/ \E asset_data \in NewAssets : create_asset(asset_data)
  \/ \E id \in 1..MaxAssetId, v \in UpdateVersions : update_asset(id, FALSE, <<>>, TRUE, v)
  \/ \E id \in 1..MaxAssetId, n \in UpdateNames : update_asset(id, TRUE, n, FALSE, <<>>)
  \/ \E id \in 1..MaxAssetId : delete_asset(id)
  \/ \E dependencies \in ComposerFiles : import_composer(dependencies)
  \/ \E dependencies \in NpmFiles : import_npm(dependencies)
  \/ \E images \in DockerFiles : import_docker(images)

SpecAssets == Init /\ [][NextAssets]_vars

\* the ingestion alone, on a table that holds any of the advisories
InitAdvisories ==
  /\ \E stored \in SUBSET CveIds :
       /\ vulnerabilities \in [stored -> {AP_exact15_wild, AP_range_after10}]
       /\ vulnerability_rows = {StoredRow(c) : c \in stored}
  /\ assets = <<>>
  /\ matches = {}
  /\ next_asset_id = 1
  /\ next_match_id = 1
  /\ clock = 1
  /\ requests = 0
  /\ run = [r \in Runners |-> IdleRun]
  /\ response = NoResponse
  /\ fetcher = IdleFetcher
  /\ p_fn = "none" /\ p_args = <<>> /\ p_ret = "none" /\ p_val = <<>>

NextAdvisories ==
  \/ \E c \in CveIds, t \in {"t1", "t2"}, sv \in {"High", "Low"},
        ap \in {AP_exact15_wild, AP_range_after10} : upsert_vulnerability(c, t, sv, ap)
  \/ \E c \in CveIds : delete_vulnerability(c)
  \/ Tick

SpecAdvisories == InitAdvisories /\ [][NextAdvisories]_vars

\* every path that writes to the database: the asset endpoints with the
\* imports, the ingestion and the engine, on a database with assets and two
\* advisories that match some of them
InitStore ==
  /\ \E n \in 1..MaxAssetId :
       /\ assets \in {t \in [1..n -> {AssetRow(d) : d \in NewAssets}] :
                        \A i, j \in 1..n : i # j => t[i].version # t[j].version}
       /\ next_asset_id = n + 1
  /\ vulnerabilities = ("CVE-1" :> AP_exact15_wild) @@ ("CVE-2" :> AP_range_after10)
  /\ vulnerability_rows = {StoredRow(c) : c \in CveIds}
  /\ matches = {}
  /\ next_match_id = 1
  /\ clock = 1
  /\ requests = 0
  /\ run = [r \in Runners |-> IdleRun]
  /\ response = NoResponse
  /\ fetcher = IdleFetcher
  /\ p_fn = "none" /\ p_args = <<>> /\ p_ret = "none" /\ p_val = <<>>

NextStore ==
  \/ \E asset_data \in NewAssets : create_asset(asset_data)
  \/ \E id \in 1..MaxAssetId, v \in UpdateVersions : update_asset(id, FALSE, <<>>, TRUE, v)
  \/ \E id \in 1..MaxAssetId, n \in UpdateNames : update_asset(id, TRUE, n, FALSE, <<>>)
  \/ \E dependencies \in ComposerFiles : import_composer(dependencies)
  \/ \E dependencies \in NpmFiles : import_npm(dependencies)
  \/ \E images \in DockerFiles : import_docker(images)
  \/ \E c \in CveIds, ap \in {AP_exact15_wild, AP_range_after10} :
        upsert_vulnerability(c, "t2", "Low", ap)
  \/ QueryAssets("r1")
  \/ QueryVulnerabilities("r1")
  \/ MatchPairs("r1")
  \/ Upsert("r1")
  \/ PersistenceFailure("r1")
  \/ Commit("r1")

SpecStore == InitStore /\ [][NextStore]_vars

\* one call of fetch_vulnerabilities against a feed that answers every request
\* with a page of any length or with an error
MaxPageRecords == 52

InitFetcher ==
  /\ EmptyDb
  /\ p_fn = "none" /\ p_args = <<>> /\ p_ret = "none" /\ p_val = <<>>

NextFetcher ==
  \/ \E n \in {1, 5, 50, 60} : fetch_vulnerabilities(n)
  \/ fetch_vulnerabilities_loop
  \/ \E page \in 0..MaxPageRecords : fetch_page_returns(page)
  \/ \E error \in {"HTTPStatusError", "TimeoutException", "RequestError", "JVNParseError"} :
        fetch_page_fails(error)

SpecFetcher == InitFetcher /\ [][NextFetcher]_vars

\* two workers serve the matching endpoint at the same time
NextConcurrent ==
  \/ \E r \in Runners : QueryAssets(r)
  \/ \E r \in Runners : QueryVulnerabilities(r)
  \/ \E r \in Runners : MatchPairs(r)
  \/ \E r \in Runners : Upsert(r)
  \/ \E r \in Runners : Deadlock(r)
  \/ \E r \in Runners : PersistenceFailure(r)
  \/ \E r \in Runners : Commit(r)

SpecConcurrent == Init /\ [][NextConcurrent]_vars

\* the predicates and the resolver applied to every argument of the universes
TwoCpeArgs == [asset_cpe : AssetCpes, vulnerability_cpe : VulnCpes]
RangeArgs == [asset_vendor : {S_nginx, S_apache}, asset_product : {S_nginx, S_httpd},
              asset_version : AssetVersions \cup {S_star},
              vulnerability_ranges : VersionRanges]
ResolverArgs == [asset_cpe : AssetCpes, affected_products : AffectedProducts]

\* strings given to extract_cpe_parts: the identifiers above, one cut after the
\* version field, one with the format version 2.2, one with a field too many
Cpe_six_fields == Join(<<S_cpe, S_23, <<"a">>, S_nginx, S_nginx, V_10>>, ":")
\* what the registration form can be given: names with capitals, blanks and
\* colons, versions with a constraint prefix, a suffix or an epoch
ManualArgs ==
  LET names == {S_nginx, <<"N", "g", "i", "n", "x">>, <<"a", " ", "h">>, <<"a", ":", "h">>}
  IN [vendor : names, product : names,
      version : {V_10, <<"^">> \o V_10, V_10 \o <<"-", "r", "c">>, <<"1", ":">> \o V_10}]

ExtractArgs ==
  [cpe_code : AssetCpes \cup VulnCpes
                \cup {Cpe_six_fields, <<>>,
                      CpeOf(<<S_cpe, <<"2", ".", "2">>, <<"a">>, S_nginx, S_nginx, V_10>>, 7),
                      CpeOf(<<S_cpe, S_23, <<"a">>, S_nginx, S_nginx, V_10>>, 8)}]

InitPure ==
  /\ EmptyDb
  /\ p_ret = "pending"
  /\ p_val = <<>>
  /\ \/ p_fn = "match_exact" /\ p_args \in TwoCpeArgs
     \/ p_fn = "match_wildcard" /\ p_args \in TwoCpeArgs
     \/ p_fn = "match_version_range" /\ p_args \in RangeArgs
     \/ p_fn = "execute_matching" /\ p_args \in ResolverArgs
     \/ p_fn = "extract_cpe_parts" /\ p_args \in ExtractArgs
     \/ p_fn = "generate_cpe_from_manual" /\ p_args \in ManualArgs

NextPure ==
  \/ CallMatchExact
  \/ CallMatchWildcard
  \/ CallMatchVersionRange
  \/ CallExecuteMatching
  \/ CallExtractCpeParts
  \/ CallGenerateCpeFromManual

SpecPure == InitPure /\ [][NextPure]_vars

(***************************************************************************)
(* Properties of the resolver (checked under SpecPure)                     *)
(***************************************************************************)
ResolverReturned == p_fn = "execute_matching" /\ p_ret \notin {"pending", "raise"}

\* the identifiers the advisory lists
ListedIds == extract_cpe_from_vulnerability(p_args.affected_products).v

\* the advisory's range descriptors
ListedRanges ==
  IF Truthy(p_args.affected_products)
  THEN DictGet(p_args.affected_products.v, "version_ranges", JDict(EmptyDict))
  ELSE JDict(EmptyDict)

ExactStage == \E i \in 1..Len(ListedIds) : match_exact(p_args.asset_cpe, ListedIds[i])

WildcardStage == \E i \in 1..Len(ListedIds) : match_wildcard(p_args.asset_cpe, ListedIds[i])

\* the range predicate holds for the vendor, product and version taken from
\* the asset's identifier
RangeStage ==
  LET parts == extract_cpe_parts(p_args.asset_cpe)
  IN /\ parts.ok
     /\ match_version_range(parts.vendor, parts.product, parts.version, ListedRanges)

\* C1: whenever at least one identifier listed by the advisory exactly
\* matches the asset's identifier, the resolver returns "exact_match",
\* whatever wildcard identifiers or satisfied ranges the advisory also holds.
C1_ExactMatchWins ==
  (ResolverReturned /\ ExactStage) => p_ret = "exact_match"

\* the resolver answered "exact_match" for an advisory that lists a
\* wildcard-matching identifier before the exactly matching one and also
\* carries a satisfied range
C1_Witness ==
  /\ ResolverReturned /\ p_ret = "exact_match"
  /\ Len(ListedIds) = 2
  /\ match_wildcard(p_args.asset_cpe, ListedIds[1])
  /\ ~match_exact(p_args.asset_cpe, ListedIds[1])
  /\ match_exact(p_args.asset_cpe, ListedIds[2])
  /\ RangeStage

\* C2: when no listed identifier exactly matches and the range predicate
\* holds for the asset, the resolver returns "version_range", even if a
\* wildcard identifier of the advisory also matches the asset.
C2_RangeBeatsWildcard ==
  (ResolverReturned /\ ~ExactStage /\ RangeStage) => p_ret = "version_range"

\* "version_range" was returned although a listed identifier wildcard-matches
C2_Witness ==
  /\ ResolverReturned /\ p_ret = "version_range"
  /\ ~ExactStage /\ WildcardStage

\* C3: the resolver returns "wildcard_match" exactly when neither the exact
\* stage nor the range stage succeeds and some listed identifier
\* wildcard-matches, and returns the absent value exactly when none of the
\* three stages succeeds (an advisory without affected-platform data included).
C3_WildcardLastElseNone ==
  ResolverReturned =>
    /\ p_ret = "wildcard_match" <=> (~ExactStage /\ ~RangeStage /\ WildcardStage)
    /\ p_ret = "None" <=> (~ExactStage /\ ~RangeStage /\ ~WildcardStage)

\* "wildcard_match" was returned on the strength of the second listed
\* identifier, for an advisory whose range for the product is not satisfied
C3_Witness ==
  /\ ResolverReturned /\ p_ret = "wildcard_match"
  /\ Len(ListedIds) = 2
  /\ ~match_wildcard(p_args.asset_cpe, ListedIds[1])
  /\ Truthy(ListedRanges)

\* the absent value was returned for an advisory with no affected-platform data
C3_WitnessNoData ==
  ResolverReturned /\ p_ret = "None" /\ p_args.affected_products = JNull

\* a well-formed platform identifier: thirteen ":"-separated fields, the
\* scheme marker "cpe", the format version "2.3", a part in {a, h, o}, and
\* non-empty vendor, product and version fields
WellFormedCpe(cpe) ==
  LET parts == Split(cpe, ":")
  IN /\ Len(parts) = 13
     /\ parts[1] = S_cpe /\ parts[2] = S_23
     /\ parts[3] \in {<<"a">>, <<"h">>, <<"o">>}
     /\ \A i \in 4..6 : Len(parts[i]) > 0

\* the range entry match_version_range selects holds a bound that does not parse
UnparseableBound ==
  /\ Truthy(p_args.vulnerability_ranges)
  /\ LET d == p_args.vulnerability_ranges.v
         first == DictGet(d, p_args.asset_product, JNull)
         product_ranges ==
           IF Truthy(first) THEN first
           ELSE DictGet(d, p_args.asset_vendor \o <<":">> \o p_args.asset_product, JNull)
     IN /\ Truthy(product_ranges)
        /\ \E i \in 1..Len(BoundKeys) :
             /\ BoundKeys[i] \in DOMAIN product_ranges.v
             /\ ~version_parse(product_ranges.v[BoundKeys[i]]).ok

\* C9: malformed input never produces a match: match_exact and
\* match_wildcard return false when either identifier is not well-formed,
\* match_version_range returns false when a bound of the selected entry does
\* not parse, and execute_matching returns the absent value when the asset's
\* identifier is not well-formed or when the advisory carries no ranges and
\* none of its listed identifiers is well-formed.
C9_MalformedNeverMatches ==
  /\ (/\ p_fn \in {"match_exact", "match_wildcard"} /\ p_ret # "pending"
      /\ (~WellFormedCpe(p_args.asset_cpe) \/ ~WellFormedCpe(p_args.vulnerability_cpe)))
       => p_ret = "False"
  /\ (p_fn = "match_version_range" /\ p_ret # "pending" /\ UnparseableBound)
       => p_ret = "False"
  /\ (/\ ResolverReturned
      /\ \/ ~WellFormedCpe(p_args.asset_cpe)
         \/ /\ ~Truthy(ListedRanges)
            /\ \A i \in 1..Len(ListedIds) : ~WellFormedCpe(ListedIds[i]))
       => p_ret = "None"

\* the part of C9 the code does satisfy: an unparseable bound never matches
C9_UnparseableBoundFailsClosed ==
  (p_fn = "match_version_range" /\ p_ret # "pending" /\ UnparseableBound)
    => p_ret = "False"

\* the wildcard predicate accepted an advisory identifier whose scheme marker
\* is not "cpe"
C9_FalsePositive ==
  /\ p_fn = "match_wildcard" /\ p_ret = "True"
  /\ WellFormedCpe(p_args.asset_cpe)
  /\ p_args.vulnerability_cpe = Cpe_badscheme_any

(***************************************************************************)
(* Properties of the batch engine (checked under Spec and SpecConcurrent)  *)
(***************************************************************************)
SamePair(m1, m2) == m1.asset_id = m2.asset_id /\ m1.cve_id = m2.cve_id

\* a match table without its timestamps
WithoutMatchedAt(table) ==
  {[match_id |-> row.match_id, asset_id |-> row.asset_id, cve_id |-> row.cve_id,
    match_reason |-> row.match_reason] : row \in table}

\* the invocation served by r has just returned its statistics
Returns(r) == InProgress(r) /\ run'[r].pc = "done"

\* when r returns: the invocation before it returned too, and no asset or
\* advisory request has been served since that one read its inputs
SecondRunInARow(r) ==
  /\ run[r].previous.result.returned
  /\ run[r].previous.since = requests

\* C4: after any sequence of engine runs interleaved with asset creations,
\* updates, deletions and advisory upserts, the match table holds at most one
\* row per (asset_id, cve_id) pair.
C4_OneRowPerPair ==
  \A m1 \in matches : \A m2 \in matches : SamePair(m1, m2) => m1 = m2

\* a run that followed a committed run and a change of the data has refreshed
\* every row of the table without creating a row
C4_Witness ==
  /\ run["r1"].pc = "done"
  /\ run["r1"].previous.result.returned
  /\ run["r1"].previous.since < run["r1"].since
  /\ matches # {}
  /\ \A m \in matches : m.matched_at = clock
  /\ next_match_id = 1 + run["r1"].previous.result.total_matches

\* C5: a second run in a row over unchanged assets and advisories returns the
\* same total_matches as the first and leaves the table with the same rows up
\* to matched_at: same pairs, same kinds, same number of rows.
C5_SecondRunChangesOnlyMatchedAt ==
  [][\A r \in Runners :
       (Returns(r) /\ SecondRunInARow(r)) =>
         /\ run'[r].result.total_matches = run[r].previous.result.total_matches
         /\ WithoutMatchedAt(matches') = WithoutMatchedAt(matches)
         /\ Cardinality(matches') = Cardinality(matches)]_vars

\* the second of two runs in a row has returned, having refreshed the
\* timestamp of the rows the first one stored
C5_Witness ==
  /\ run["r1"].pc = "done"
  /\ run["r1"].previous.result.returned
  /\ run["r1"].previous.since = requests
  /\ run["r1"].result.total_matches > 0
  /\ \E m \in matches : m.matched_at = clock /\ m.match_id < next_match_id - 1
  /\ \A m \in matches : m.matched_at = clock

\* the pairs of the inputs read by r for which the resolver returns a kind
MatchingPairs(r) ==
  {p \in (1..Len(run[r].assets)) \X (1..Len(run[r].vulnerabilities)) :
     execute_matching(run[r].assets[p[1]].cpe_code,
                      run[r].vulnerabilities[p[2]].affected_products)
       \notin {"None", "raise"}}

RaisingPairs(r) ==
  {p \in (1..Len(run[r].assets)) \X (1..Len(run[r].vulnerabilities)) :
     execute_matching(run[r].assets[p[1]].cpe_code,
                      run[r].vulnerabilities[p[2]].affected_products) = "raise"}

\* C6: when the resolver raises for one pair, the run skips that pair and
\* goes on: the evaluation step does not fail, and it collects the match of
\* every other pair for persistence and reporting.
C6_RaisingPairIsSkipped ==
  [][\A r \in Runners :
       (run[r].pc = "match" /\ run'[r] # run[r]
          /\ RaisingPairs(r) # {} /\ MatchingPairs(r) # {}) =>
         /\ run'[r].pc = "upsert"
         /\ \A p \in MatchingPairs(r) :
              \E k \in 1..Len(run'[r].matches) :
                /\ run'[r].matches[k].asset_id = run[r].assets[p[1]].asset_id
                /\ run'[r].matches[k].cve_id = run[r].vulnerabilities[p[2]].cve_id]_vars

\* C7: persistence is all-or-nothing: the only step of a run that changes the
\* match table is its commit, which stores every upsert of the run at once;
\* every other step of the run, a failure during evaluation or part-way
\* through the upserts included, leaves the table as it was.
C7_AllOrNothing ==
  [][\A r \in Runners :
       run'[r] # run[r] =>
         IF run[r].pc = "commit" /\ run'[r].pc = "done"
         THEN \A k \in 1..Len(run[r].matches) :
                \E row \in matches' :
                  /\ SamePair(row, run[r].matches[k])
                  /\ row.match_reason = run[r].matches[k].match_reason
                  /\ row.matched_at = run[r].matches[k].matched_at
         ELSE matches' = matches]_vars

\* a run has failed after its first upsert statement and before its commit,
\* and the table holds none of its rows
C7_Witness ==
  /\ run["r1"].pc = "failed"
  /\ run["r1"].error = "persistence"
  /\ run["r1"].pos > 1
  /\ matches = {}

\* C8: two invocations running concurrently over the same assets and
\* advisories: no pair has more than one row, neither invocation fails
\* because of the other, and when both have returned every matching pair has
\* exactly one row, of the kind the resolver gives.
C8_ConcurrentRunsBothSucceed ==
  /\ \A m1 \in matches : \A m2 \in matches : SamePair(m1, m2) => m1 = m2
  /\ \A r \in Runners :
       run[r].pc = "failed" => run[r].error \in {"persistence", "resolver"}
  /\ (\A r \in Runners : run[r].pc = "done") =>
       \A a \in DOMAIN assets : \A c \in DOMAIN vulnerabilities :
         LET kind == execute_matching(assets[a].cpe_code, vulnerabilities[c])
         IN kind # "None" =>
              Cardinality({m \in matches : m.asset_id = a /\ m.cve_id = c
                                           /\ m.match_reason = kind}) = 1

\* the part of C8 the code does satisfy: no duplicate rows under any interleaving
C8_NoDuplicatesUnderConcurrency ==
  \A m1 \in matches : \A m2 \in matches :
    (m1.asset_id = m2.asset_id /\ m1.cve_id = m2.cve_id) => m1.match_id = m2.match_id

\* C10: the statistics a run returns: total_assets and total_vulnerabilities
\* are the numbers of assets and advisories read, total_matches is the number
\* of pairs with a resolver result, each per-kind counter is the number of
\* pairs resolved to that kind, and the three counters add up to total_matches.
PairsOfKind(r, kind) ==
  {p \in (1..Len(run[r].assets)) \X (1..Len(run[r].vulnerabilities)) :
     execute_matching(run[r].assets[p[1]].cpe_code,
                      run[r].vulnerabilities[p[2]].affected_products) = kind}

C10_StatisticsCountPairs ==
  [][\A r \in Runners :
       Returns(r) =>
         LET res == run'[r].result
         IN /\ res.total_assets = Len(run[r].assets)
            /\ res.total_vulnerabilities = Len(run[r].vulnerabilities)
            /\ res.total_matches = Cardinality(MatchingPairs(r))
            /\ res.exact_matches = Cardinality(PairsOfKind(r, "exact_match"))
            /\ res.version_range_matches = Cardinality(PairsOfKind(r, "version_range"))
            /\ res.wildcard_matches = Cardinality(PairsOfKind(r, "wildcard_match"))
            /\ res.total_matches =
                 res.exact_matches + res.version_range_matches + res.wildcard_matches]_vars

\* a run over two assets and two advisories has returned statistics with
\* matches of more than one kind
C10_Witness ==
  /\ run["r1"].pc = "done"
  /\ run["r1"].result.returned
  /\ run["r1"].result.total_assets = 2
  /\ run["r1"].result.total_vulnerabilities = 2
  /\ run["r1"].result.wildcard_matches > 0
  /\ run["r1"].result.exact_matches + run["r1"].result.version_range_matches > 0

\* C11: when a run returns successfully, every pair of the assets and
\* advisories it read for which the resolver gives a kind has a match row of
\* that kind, also when an earlier run stored another kind for the pair.
C11_StoredKindIsResolverKind ==
  [][\A r \in Runners :
       Returns(r) =>
         \A p \in MatchingPairs(r) :
           \E row \in matches' :
             /\ row.asset_id = run[r].assets[p[1]].asset_id
             /\ row.cve_id = run[r].vulnerabilities[p[2]].cve_id
             /\ row.match_reason =
                  execute_matching(run[r].assets[p[1]].cpe_code,
                                   run[r].vulnerabilities[p[2]].affected_products)]_vars

\* a first run stored wildcard matches only, the asset's version was changed,
\* and a second run has turned every one of those rows into an exact match
C11_Witness ==
  /\ run["r1"].pc = "done"
  /\ run["r1"].previous.result.returned
  /\ run["r1"].previous.result.total_matches > 0
  /\ run["r1"].previous.result.wildcard_matches = run["r1"].previous.result.total_matches
  /\ run["r1"].result.exact_matches = run["r1"].previous.result.total_matches
  /\ run["r1"].result.total_matches = run["r1"].result.exact_matches
  /\ next_match_id = 1 + run["r1"].previous.result.total_matches
  /\ Cardinality(matches) = run["r1"].result.total_matches
  /\ \A row \in matches : row.match_reason = "exact_match"

\* C12: the commit of a run keeps, for every row that was in the table, a row
\* with the same match_id, asset_id and cve_id; a row whose pair the run
\* upserts may differ in match_reason and matched_at only, and every other
\* row is unchanged.
C12_UpsertKeepsIdentity ==
  [][\A r \in Runners :
       (run[r].pc = "commit" /\ run'[r].pc = "done") =>
         \A row \in matches :
           \E kept \in matches' :
             /\ kept.match_id = row.match_id
             /\ SamePair(kept, row)
             /\ \/ kept = row
                \/ \E k \in 1..Len(run[r].matches) : SamePair(run[r].matches[k], row)]_vars

\* the row with the first match_id ever given out has been overwritten by a
\* later run, which gave out no match_id
C12_Witness ==
  /\ run["r1"].pc = "done"
  /\ run["r1"].previous.result.returned
  /\ next_match_id = 1 + run["r1"].previous.result.total_matches
  /\ \E row \in matches :
       /\ row.match_id = 1
       /\ row.matched_at = clock
       /\ row.match_reason = "version_range"

(***************************************************************************)
(* Properties of the predicates (checked under SpecPure)                   *)
(***************************************************************************)
RangeReturned == p_fn = "match_version_range" /\ p_ret # "pending"

CompositeKey == p_args.asset_vendor \o <<":">> \o p_args.asset_product

\* the entry of the ranges map the predicate evaluates (null when there is none)
SelectedEntry ==
  IF ~Truthy(p_args.vulnerability_ranges) THEN JNull
  ELSE LET d == p_args.vulnerability_ranges.v
           first == DictGet(d, p_args.asset_product, JNull)
       IN IF Truthy(first) THEN first ELSE DictGet(d, CompositeKey, JNull)

\* C13: an entry that is present in the ranges map under the asset's product
\* and holds none of the four bound keys, an entry without any key included,
\* makes match_version_range return true (for every asset version that is a
\* version).
C13_NoBoundKeysMatches ==
  (/\ RangeReturned
   /\ p_args.vulnerability_ranges.t = "dict"
   /\ p_args.asset_product \in DOMAIN p_args.vulnerability_ranges.v
   /\ \A i \in 1..Len(BoundKeys) :
        BoundKeys[i] \notin DOMAIN p_args.vulnerability_ranges.v[p_args.asset_product].v
   /\ version_parse(p_args.asset_version).ok)
    => p_ret = "True"

\* the part of C13 the code does satisfy: an entry with keys, none of them a
\* bound key, matches every parseable version
C13_UnknownKeysOnlyMatches ==
  (/\ RangeReturned
   /\ Truthy(SelectedEntry)
   /\ \A i \in 1..Len(BoundKeys) : BoundKeys[i] \notin DOMAIN SelectedEntry.v
   /\ version_parse(p_args.asset_version).ok)
    => p_ret = "True"

\* the asset version compared with the bound under key
CmpWithBound(key) ==
  VersionCmp(version_parse(p_args.asset_version), version_parse(SelectedEntry.v[key]))

HasBound(key) == key \in DOMAIN SelectedEntry.v

\* an entry was found, and the asset version and every bound present parse
ParseableRangeCall ==
  /\ RangeReturned
  /\ Truthy(SelectedEntry)
  /\ version_parse(p_args.asset_version).ok
  /\ \A i \in 1..Len(BoundKeys) :
       HasBound(BoundKeys[i]) => version_parse(SelectedEntry.v[BoundKeys[i]]).ok

\* C14: for an entry found in the ranges map and parseable versions,
\* match_version_range returns true iff every bound present holds:
\* version >= versionStartIncluding, version > versionStartExcluding,
\* version <= versionEndIncluding, version < versionEndExcluding.
C14_EveryPresentBoundHolds ==
  ParseableRangeCall =>
    (p_ret = "True" <=>
       /\ HasBound("versionStartIncluding") => CmpWithBound("versionStartIncluding") >= 0
       /\ HasBound("versionStartExcluding") => CmpWithBound("versionStartExcluding") > 0
       /\ HasBound("versionEndIncluding") => CmpWithBound("versionEndIncluding") <= 0
       /\ HasBound("versionEndExcluding") => CmpWithBound("versionEndExcluding") < 0)

\* a version equal to the inclusive lower bound of a two-sided range matched
C14_Witness ==
  /\ ParseableRangeCall /\ p_ret = "True"
  /\ HasBound("versionStartIncluding") /\ CmpWithBound("versionStartIncluding") = 0
  /\ HasBound("versionEndExcluding")

\* a version equal to the exclusive upper bound, written with another number
\* of fields, did not match although the lower bound holds
C14_WitnessExclusive ==
  /\ ParseableRangeCall /\ p_ret = "False"
  /\ HasBound("versionStartIncluding") /\ CmpWithBound("versionStartIncluding") > 0
  /\ HasBound("versionEndExcluding") /\ CmpWithBound("versionEndExcluding") = 0
  /\ p_args.asset_version # SelectedEntry.v["versionEndExcluding"]

\* C15: when a bound present in the product's entry does not parse, or the
\* asset version does not parse, match_version_range returns false, whatever
\* the other bounds are; the call returns a boolean and never raises.
C15_UnparseableFailsClosed ==
  RangeReturned =>
    /\ p_ret \in {"True", "False"}
    /\ (/\ Truthy(SelectedEntry)
        /\ \/ ~version_parse(p_args.asset_version).ok
           \/ \E i \in 1..Len(BoundKeys) :
                /\ HasBound(BoundKeys[i])
                /\ ~version_parse(SelectedEntry.v[BoundKeys[i]]).ok)
         => p_ret = "False"

\* false was returned for a version inside the parseable lower bound of an
\* entry whose upper bound does not parse
C15_Witness ==
  /\ RangeReturned /\ p_ret = "False"
  /\ Truthy(SelectedEntry)
  /\ version_parse(p_args.asset_version).ok
  /\ HasBound("versionStartIncluding") /\ CmpWithBound("versionStartIncluding") > 0
  /\ HasBound("versionEndExcluding")
  /\ ~version_parse(SelectedEntry.v["versionEndExcluding"]).ok

\* the ranges map cut down to one of its keys
OnlyKey(key) == JDict(key :> p_args.vulnerability_ranges.v[key])

ResultOn(ranges) ==
  Bool(match_version_range(p_args.asset_vendor, p_args.asset_product,
                           p_args.asset_version, ranges))

\* C16: the entry under the bare product name is looked up first and is the
\* one evaluated whenever that key is present; the entry under
\* "vendor:product" is evaluated only when the bare key is absent; with
\* neither key present, or an empty map, the result is false.
C16_BareProductKeyFirst ==
  (RangeReturned /\ p_args.vulnerability_ranges.t = "dict") =>
    LET keys == DOMAIN p_args.vulnerability_ranges.v
    IN /\ p_args.asset_product \in keys => p_ret = ResultOn(OnlyKey(p_args.asset_product))
       /\ (p_args.asset_product \notin keys /\ CompositeKey \in keys)
            => p_ret = ResultOn(OnlyKey(CompositeKey))
       /\ (p_args.asset_product \notin keys /\ CompositeKey \notin keys)
            => p_ret = "False"

\* the part of C16 the code does satisfy: a bare-product entry that holds at
\* least one key is the one evaluated
C16_NonEmptyBareEntryFirst ==
  (/\ RangeReturned /\ p_args.vulnerability_ranges.t = "dict"
   /\ p_args.asset_product \in DOMAIN p_args.vulnerability_ranges.v
   /\ Truthy(p_args.vulnerability_ranges.v[p_args.asset_product]))
    => p_ret = ResultOn(OnlyKey(p_args.asset_product))

ExactReturned == p_fn = "match_exact" /\ p_ret # "pending"

\* the two identifiers have the same first eight ":"-separated fields (an
\* identifier with fewer fields has the same fields only as one with as many)
FirstEightFieldsEqual ==
  LET a == Split(p_args.asset_cpe, ":")
      v == Split(p_args.vulnerability_cpe, ":")
  IN \A i \in 1..8 :
       IF i <= Len(a) /\ i <= Len(v) THEN a[i] = v[i]
       ELSE i > Len(a) /\ i > Len(v)

\* C17: match_exact is true iff the first eight fields of the two
\* identifiers are identical; the fields after them never matter, and two
\* identifiers that differ in the version field only do not match.
C17_ExactIffFirstEightFields ==
  ExactReturned => (p_ret = "True" <=> FirstEightFieldsEqual)

\* two thirteen-field identifiers that differ after the eighth field matched
C17_Witness ==
  /\ ExactReturned /\ p_ret = "True"
  /\ p_args.asset_cpe # p_args.vulnerability_cpe
  /\ Len(Split(p_args.asset_cpe, ":")) = 13
  /\ Len(Split(p_args.vulnerability_cpe, ":")) = 13

\* two identifiers that differ in the version field only did not match
C17_WitnessVersion ==
  /\ ExactReturned /\ p_ret = "False"
  /\ LET a == Split(p_args.asset_cpe, ":")
         v == Split(p_args.vulnerability_cpe, ":")
     IN /\ Len(a) = 13 /\ Len(v) = 13
        /\ \A i \in 1..13 : i # 6 => a[i] = v[i]

WildcardReturned == p_fn = "match_wildcard" /\ p_ret # "pending"

\* C18: for an asset identifier that has its version, update and edition
\* fields, match_wildcard is true iff part, vendor and product of the two
\* identifiers are equal and the advisory identifier's version, update and
\* edition are all "*"; so it is false for a concrete advisory version and
\* does not depend on the asset's version, update and edition.
C18_WildcardIffFamilyAndStars ==
  (WildcardReturned /\ Len(Split(p_args.asset_cpe, ":")) >= 8) =>
    LET a == Split(p_args.asset_cpe, ":")
        v == Split(p_args.vulnerability_cpe, ":")
    IN p_ret = "True" <=>
         /\ Len(v) >= 8
         /\ \A i \in 3..5 : a[i] = v[i]
         /\ \A i \in 6..8 : v[i] = <<"*">>

\* an asset identifier with a concrete version and a concrete update field
\* wildcard-matched
C18_Witness ==
  /\ WildcardReturned /\ p_ret = "True"
  /\ LET a == Split(p_args.asset_cpe, ":")
     IN Len(a) = 13 /\ a[6] # <<"*">> /\ a[7] # <<"*">>

\* an advisory identifier of the asset's family with a concrete version did
\* not wildcard-match
C18_WitnessConcrete ==
  /\ WildcardReturned /\ p_ret = "False"
  /\ LET a == Split(p_args.asset_cpe, ":")
         v == Split(p_args.vulnerability_cpe, ":")
     IN /\ Len(a) = 13 /\ Len(v) = 13
        /\ \A i \in 3..5 : a[i] = v[i]
        /\ v[6] # <<"*">>
        /\ \A i \in 7..8 : v[i] = <<"*">>

(***************************************************************************)
(* Properties of the asset endpoints (checked under SpecAssets)            *)
(***************************************************************************)
TripleOf(row) == <<row.vendor, row.product, row.version>>
Triples(table) == {TripleOf(table[id]) : id \in DOMAIN table}

UniqueTriples ==
  \A i, j \in DOMAIN assets : i # j => TripleOf(assets[i]) # TripleOf(assets[j])

\* the step serves a request of the endpoint
Served(endpoint) == requests' = requests + 1 /\ response'.endpoint = endpoint

\* the rows the step added to the asset table
AddedIds == DOMAIN assets' \ DOMAIN assets
RowsKept == \A id \in DOMAIN assets : id \in DOMAIN assets' /\ assets'[id] = assets[id]

\* the (vendor, product, version) an item of an import asks for; the items
\* the loops pass over (php, scratch) ask for nothing
RequestedTriples(endpoint, items) ==
  CASE endpoint = "import_composer" ->
         {<<composer_vendor(items[k][1]), composer_product(items[k][1]),
            normalize_version(items[k][2])>> :
            k \in {i \in 1..Len(items) : items[i][1] # S_php}}
    [] endpoint = "import_npm" ->
         {<<Get(NPM_VENDOR_MAP, items[k][1], S_npmjs), npm_product(items[k][1]),
            normalize_version(items[k][2])>> : k \in 1..Len(items)}
    [] endpoint = "import_docker" ->
         {<<Get(DOCKER_VENDOR_MAP, items[k][1], S_docker), items[k][1],
            normalize_version(IF items[k][2] = <<>> THEN S_latest ELSE items[k][2])>> :
            k \in {i \in 1..Len(items) : Lower(items[i][1]) # S_scratch}}

ProcessedItems(endpoint, items) ==
  Cardinality({k \in 1..Len(items) :
                 /\ endpoint = "import_composer" => items[k][1] # S_php
                 /\ endpoint = "import_docker" => Lower(items[k][1]) # S_scratch})

CreateRejectsDuplicate ==
  Served("create_asset") =>
    LET request == response'.request
        triple == <<Strip(request.vendor), Strip(request.product), Strip(request.version)>>
    IN IF triple \in Triples(assets)
       THEN response'.status = 400 /\ assets' = assets
       ELSE /\ response'.status = 201
            /\ RowsKept
            /\ Cardinality(AddedIds) = 1
            /\ \A id \in AddedIds : TripleOf(assets'[id]) = triple

UpdateRejectsDuplicate ==
  (Served("update_asset") /\ response'.request.asset_id \in DOMAIN assets) =>
    LET request == response'.request
        id == request.asset_id
        triple == <<assets[id].vendor, assets[id].product,
                    IF request.has_version THEN Strip(request.version)
                    ELSE assets[id].version>>
    IN IF \E other \in DOMAIN assets \ {id} : TripleOf(assets[other]) = triple
       THEN response'.status = 400 /\ assets' = assets
       ELSE /\ response'.status = 200
            /\ DOMAIN assets' = DOMAIN assets
            /\ TripleOf(assets'[id]) = triple

ImportSkipsDuplicates ==
  \A endpoint \in {"import_composer", "import_npm", "import_docker"} :
    Served(endpoint) =>
      LET requested == RequestedTriples(endpoint, response'.request)
      IN /\ RowsKept
         /\ {TripleOf(assets'[id]) : id \in AddedIds} = requested \ Triples(assets)
         /\ response'.imported_count = Cardinality(AddedIds)
         /\ response'.imported_count + response'.skipped_count =
              ProcessedItems(endpoint, response'.request)
         /\ requested \subseteq Triples(assets) => assets' = assets

\* C19: after any sequence of create, update, delete and import requests no
\* two stored assets have the same (vendor, product, version); a create or an
\* update that asks for the triple of another stored asset is answered 400
\* and leaves the asset table as it was, and an import stores one asset for
\* every requested triple that is not stored yet, counts every other item as
\* skipped, and leaves the rows that were stored as they were.
C19_UniqueTriples ==
  /\ []UniqueTriples
  /\ [][CreateRejectsDuplicate /\ UpdateRejectsDuplicate /\ ImportSkipsDuplicates]_vars

\* a create request for the triple of a stored asset has been answered 400
C19_Witness ==
  /\ response.endpoint = "create_asset"
  /\ response.status = 400
  /\ <<Strip(response.request.vendor), Strip(response.request.product),
       Strip(response.request.version)>> \in Triples(assets)

\* an update of the version to that of another asset has been answered 400
C19_WitnessUpdate ==
  /\ response.endpoint = "update_asset"
  /\ response.status = 400
  /\ Cardinality(DOMAIN assets) = 2

\* an import stored one of the two items of its file and skipped the other
C19_WitnessImport ==
  /\ response.endpoint \in {"import_composer", "import_npm", "import_docker"}
  /\ response.imported_count = 1
  /\ response.skipped_count = 1

\* an import found every item of its file stored already
C19_WitnessImportOnlySkipped ==
  /\ response.endpoint = "import_composer"
  /\ response.imported_count = 0
  /\ response.skipped_count = 2

(***************************************************************************)
(* Referential integrity of the match rows (checked under SpecIngest)      *)
(***************************************************************************)
MatchesReferenceStoredRows ==
  \A row \in matches : row.asset_id \in DOMAIN assets /\ row.cve_id \in DOMAIN vulnerabilities

\* a step that removes an asset removes the match rows of that asset and no other
DeleteRemovesMatches ==
  \A asset_id \in DOMAIN assets \ DOMAIN assets' :
     matches' = {row \in matches : row.asset_id # asset_id}

\* C20: the deletion of an asset removes the match rows of that asset and no
\* other, and after any sequence of asset requests, advisory upserts and
\* deletions, and matching runs every match row references a stored asset and
\* a stored advisory.
C20_MatchesReferenceStoredRows ==
  /\ []MatchesReferenceStoredRows
  /\ [][DeleteRemovesMatches]_vars

\* the only asset was deleted after a run had stored rows for it: none is left
C20_Witness ==
  /\ response.endpoint = "delete_asset"
  /\ response.status = 204
  /\ next_asset_id = 2
  /\ assets = <<>>
  /\ next_match_id > 1
  /\ matches = {}

\* one of two assets with stored rows was deleted: the rows of the other remain
C20_WitnessOtherRowsRemain ==
  /\ response.endpoint = "delete_asset"
  /\ response.status = 204
  /\ Cardinality(DOMAIN assets) = 1
  /\ next_match_id > 2
  /\ matches # {}

(***************************************************************************)
(* Properties of the advisory table (checked under SpecAdvisories)         *)
(***************************************************************************)
RowsOf(rows, cve_id) == {row \in rows : row.cve_id = cve_id}

OneRowPerCve ==
  /\ \A c \in CveIds : Cardinality(RowsOf(vulnerability_rows, c)) <= 1
  /\ {row.cve_id : row \in vulnerability_rows} = DOMAIN vulnerabilities

\* a step that keeps the record of an identifier keeps its created_at, does
\* not move its updated_at backwards, and stamps a record it changes with now
UpsertInPlace ==
  \A before \in vulnerability_rows :
    \A after \in RowsOf(vulnerability_rows', before.cve_id) :
      /\ after.created_at = before.created_at
      /\ after.updated_at >= before.updated_at
      /\ after # before => after.updated_at = clock

\* C21: after any number of upserts and deletions there is exactly one record
\* for every stored cve_id, and an upsert of a stored cve_id changes its
\* mutable fields in place: created_at stays, updated_at does not go back.
C21_UpsertInPlace ==
  /\ []OneRowPerCve
  /\ [][UpsertInPlace]_vars

\* a record stored at time 0 was upserted later with another title and
\* severity: it is still the only record of its cve_id, created at time 0
C21_Witness ==
  \E row \in vulnerability_rows :
    /\ row.created_at = 0
    /\ row.updated_at > 1
    /\ row.title = "t2"
    /\ row.severity = "Low"
    /\ RowsOf(vulnerability_rows, row.cve_id) = {row}

\* a cve_id that was not stored has been inserted
C21_WitnessInsert ==
  \E row \in vulnerability_rows : row.created_at > 1 /\ row.updated_at = row.created_at

(***************************************************************************)
(* The stored identifier of an asset (checked under SpecAssets)            *)
(***************************************************************************)
BuiltFromStoredFields(row) ==
  row.cpe_code = generate_cpe_from_manual(row.vendor, row.product, row.version)

\* C22 (as claimed): after every create, import and update the stored
\* cpe_code of every asset is the identifier built from its stored vendor,
\* product and version.
C22_CpeBuiltFromStoredFields ==
  \A id \in DOMAIN assets : BuiltFromStoredFields(assets[id])

\* C22 (the part that holds): an update changes asset_name and version of the
\* addressed asset only, regenerates cpe_code from (vendor, product, new
\* version) when a version is supplied and keeps it otherwise; a refused
\* update changes nothing.
C22_UpdateFrame ==
  [][Served("update_asset") =>
       LET request == response'.request
           id == request.asset_id
       IN IF response'.status # 200 THEN assets' = assets
          ELSE /\ DOMAIN assets' = DOMAIN assets
               /\ \A other \in DOMAIN assets \ {id} : assets'[other] = assets[other]
               /\ assets'[id].vendor = assets[id].vendor
               /\ assets'[id].product = assets[id].product
               /\ assets'[id].source = assets[id].source
               /\ assets'[id].asset_name =
                    IF request.has_name THEN Strip(request.asset_name)
                    ELSE assets[id].asset_name
               /\ assets'[id].version =
                    IF request.has_version THEN Strip(request.version)
                    ELSE assets[id].version
               /\ IF request.has_version
                  THEN BuiltFromStoredFields(assets'[id])
                  ELSE assets'[id].cpe_code = assets[id].cpe_code]_vars

\* a version was updated and the identifier regenerated
C22_WitnessUpdate ==
  /\ response.endpoint = "update_asset"
  /\ response.status = 200
  /\ response.request.has_version
  /\ assets[response.request.asset_id].version = V_15
  /\ assets[response.request.asset_id].cpe_code = Cpe_nginx_15

(***************************************************************************)
(* Writers of the match table (checked under SpecStore)                    *)
(***************************************************************************)
CommitStep == \E r \in Runners : run[r].pc = "commit" /\ run'[r].pc = "done"

\* C23: a step that stores a match row, or gives a stored one another
\* match_reason or matched_at, is the commit of a run of
\* execute_full_matching; create, update, the imports and the ingestion of
\* advisories leave every match row as it is.
C23_OnlyTheEngineWritesMatches ==
  [][/\ ~(matches' \subseteq matches) => CommitStep
     /\ requests' # requests => matches' = matches]_vars

\* an import was served while match rows were stored
C23_Witness ==
  /\ response.endpoint \in {"import_composer", "import_npm", "import_docker"}
  /\ response.imported_count > 0
  /\ matches # {}
  /\ run["r1"].pc = "done"

\* an advisory was upserted while a match row of it was stored
C23_WitnessIngestion ==
  /\ \E row \in vulnerability_rows : row.title = "t2" /\ row.updated_at > 1
  /\ \E row \in vulnerability_rows : \E m \in matches : m.cve_id = row.cve_id /\ row.title = "t2"

(***************************************************************************)
(* Failures of the upsert phase (checked under Spec)                       *)
(***************************************************************************)
InUpsertPhase(r) == run[r].pc \in {"upsert", "commit"}

\* the next statement of the transaction
StatementDone(r) ==
  /\ run[r].pc = "upsert"
  /\ run'[r].pc \in {"upsert", "commit"}
  /\ run'[r].pos = run[r].pos + 1

\* the invocation has raised: HTTP 500, nothing of its transaction is stored
Surfaced(r) ==
  /\ run'[r].pc = "failed"
  /\ run'[r].error \in {"persistence", "integrity", "deadlock"}
  /\ ~run'[r].result.returned
  /\ run'[r].pos = run[r].pos
  /\ matches' = matches
  /\ next_match_id' = next_match_id

\* C24: a step of an invocation in its upsert phase is the next statement,
\* the commit with the return of the statistics, or the failure of the
\* invocation with nothing stored; and a failed invocation takes no further
\* step: the next step of its worker is a new request that reads its inputs
\* again.
C24_FailureSurfacedNoRetry ==
  [][\A r \in Runners :
       /\ (InUpsertPhase(r) /\ run'[r] # run[r]) =>
            \/ StatementDone(r)
            \/ run[r].pc = "commit" /\ run'[r].pc = "done" /\ run'[r].result.returned
            \/ Surfaced(r)
       /\ (run[r].pc = "failed" /\ run'[r] # run[r]) =>
            /\ run'[r].pc = "query_vulnerabilities"
            /\ run'[r].matches = <<>>
            /\ run'[r].pos = 1]_vars

\* the connection was lost at the second statement of a transaction: the
\* invocation has failed and no row is stored
C24_Witness ==
  /\ run["r1"].pc = "failed"
  /\ run["r1"].error = "persistence"
  /\ run["r1"].pos = 2
  /\ matches = {}

(***************************************************************************)
(* The parser of identifiers (checked under SpecPure)                      *)
(***************************************************************************)
ExtractReturned == p_fn = "extract_cpe_parts" /\ p_ret = "value"

\* the fields of the string given to the parser
GivenFields == Split(p_args.cpe_code, ":")

\* the serialized shape: the marker "cpe:2.3" and thirteen fields in all
HasIdentifierShape ==
  /\ Len(GivenFields) = 13
  /\ GivenFields[1] = S_cpe
  /\ GivenFields[2] = S_23

\* C25 (as claimed): extract_cpe_parts returns the part, vendor, product and
\* version fields exactly for the strings with the marker "cpe:2.3" and the
\* full field count, and none for every other string.
C25_NoneUnlessIdentifierShape ==
  ExtractReturned =>
    /\ p_val.ok <=> HasIdentifierShape
    /\ p_val.ok => /\ p_val.part = GivenFields[3]
                   /\ p_val.vendor = GivenFields[4]
                   /\ p_val.product = GivenFields[5]
                   /\ p_val.version = GivenFields[6]

\* C25 (the part that holds): the parser never raises; it returns none for
\* the strings with another marker or fewer than six fields, and fields three
\* to six for every other string.
C25_NoneBelowSixFields ==
  /\ p_fn = "extract_cpe_parts" => p_ret \in {"pending", "value"}
  /\ ExtractReturned =>
       /\ p_val.ok <=> /\ Len(GivenFields) >= 6
                       /\ GivenFields[1] = S_cpe
                       /\ GivenFields[2] = S_23
       /\ p_val.ok => /\ p_val.part = GivenFields[3]
                      /\ p_val.vendor = GivenFields[4]
                      /\ p_val.product = GivenFields[5]
                      /\ p_val.version = GivenFields[6]

\* the string cut after the version field was parsed as an identifier
C25_WitnessSixFields ==
  /\ ExtractReturned
  /\ p_args.cpe_code = Cpe_six_fields
  /\ p_val.ok
  /\ p_val.version = V_10

(***************************************************************************)
(* The generator of identifiers (checked under SpecPure)                   *)
(***************************************************************************)
GenerateReturned == p_fn = "generate_cpe_from_manual" /\ p_ret = "value"

\* the identifier returned has thirteen fields: the marker, the part "a", the
\* three normalized strings and seven wildcard tokens; and the parser gives
\* the three normalized strings back
WellFormedRoundTrip ==
  LET fields == Split(p_val, ":")
      parts == extract_cpe_parts(p_val)
  IN /\ Len(fields) = 13
     /\ fields[1] = S_cpe /\ fields[2] = S_23 /\ fields[3] = <<"a">>
     /\ fields[4] = normalize_name(p_args.vendor)
     /\ fields[5] = normalize_name(p_args.product)
     /\ fields[6] = normalize_version(p_args.version)
     /\ \A i \in 7..13 : fields[i] = S_star
     /\ parts.ok
     /\ parts.part = <<"a">>
     /\ parts.vendor = normalize_name(p_args.vendor)
     /\ parts.product = normalize_name(p_args.product)
     /\ parts.version = normalize_version(p_args.version)

\* C26 (as claimed): for every vendor, product and version the identifier
\* generate_cpe_from_manual returns is well formed and extract_cpe_parts
\* gives back the normalized vendor, product and version.
C26_GeneratedIdentifierRoundTrips ==
  GenerateReturned => WellFormedRoundTrip

ColonFree ==
  /\ ~Contains(p_args.vendor, ":")
  /\ ~Contains(p_args.product, ":")
  /\ ~Contains(p_args.version, ":")

\* C26 (the part that holds): the same, for strings without a colon.
C26_RoundTripWithoutColon ==
  (GenerateReturned /\ ColonFree) => WellFormedRoundTrip

\* a name with a capital, a name with a blank and a version with a constraint
\* prefix went through the generator and came back normalized
C26_WitnessNormalized ==
  /\ GenerateReturned
  /\ p_args.vendor = <<"N", "g", "i", "n", "x">>
  /\ p_args.product = <<"a", " ", "h">>
  /\ p_args.version = <<"^">> \o V_10
  /\ extract_cpe_parts(p_val).vendor = S_nginx
  /\ extract_cpe_parts(p_val).product = <<"a", "_", "h">>
  /\ extract_cpe_parts(p_val).version = V_10

(***************************************************************************)
(* C27: fetch_vulnerabilities called with max_items = n (n >= 1) returns   *)
(* at most n records, for every sequence of page responses.                *)
(***************************************************************************)
C27_AtMostMaxItems ==
  fetcher.pc = "returned" => fetcher.all_vulnerabilities <= fetcher.max_items

\* what the code keeps: the bound holds for a call whose last page holds no
\* more records than the request asked for
C27_AtMostMaxItemsWhenPageWithinCount ==
  [][ (/\ fetcher.pc = "request"
       /\ fetcher'.pc = "returned"
       /\ fetcher'.all_vulnerabilities - fetcher.all_vulnerabilities <= fetcher.max_count)
      => fetcher'.all_vulnerabilities <= fetcher'.max_items ]_vars

\* a call with max_items = 5 returned the six records of a page of fewer
\* than items_per_page records
C27_WitnessOverLimit ==
  /\ fetcher.pc = "returned"
  /\ fetcher.max_items = 5
  /\ fetcher.all_vulnerabilities = 6

(***************************************************************************)
(* C28: _fetch_page makes at most max_retries (3) attempts for one page;   *)
(* a successful attempt returns the page with no further attempt or wait;  *)
(* a failed attempt that is not the last is followed by a wait of          *)
(* retry_delay * 2^(attempt-1) seconds (5, then 10); when every attempt    *)
(* fails JVNAPIError (or the JVNParseError) is raised and no empty page is *)
(* returned.                                                               *)
(***************************************************************************)
InFetchPage == fetcher.pc = "request"

AttemptsBounded ==
  InFetchPage =>
    /\ fetcher.attempt \in 1..3
    /\ fetcher.slept = SubSeq(<<5, 10>>, 1, fetcher.attempt - 1)

AttemptFailed == InFetchPage /\ fetcher' # fetcher /\ fetcher'.error # "none"
AttemptSucceeded == InFetchPage /\ fetcher' # fetcher /\ fetcher'.error = "none"

RetryDiscipline ==
  /\ AttemptSucceeded =>
       /\ fetcher'.pc \in {"while", "returned"}
       /\ fetcher'.attempt = fetcher.attempt
       /\ fetcher'.slept = fetcher.slept
  /\ AttemptFailed /\ fetcher.attempt < 3 =>
       /\ fetcher'.pc = "request"
       /\ fetcher'.attempt = fetcher.attempt + 1
       /\ Len(fetcher'.slept) = Len(fetcher.slept) + 1
  /\ AttemptFailed /\ fetcher.attempt = 3 =>
       /\ fetcher'.pc = "raised"
       /\ fetcher'.raised = IF fetcher'.error = "JVNParseError"
                            THEN "JVNParseError" ELSE "JVNAPIError"
       /\ fetcher'.all_vulnerabilities = fetcher.all_vulnerabilities

C28_RetryWithBackoff == []AttemptsBounded /\ [][RetryDiscipline]_vars

\* three attempts failed, with waits of 5 and 10 seconds, and the error was raised
C28_Witness ==
  /\ fetcher.pc = "raised"
  /\ fetcher.attempt = 3
  /\ fetcher.slept = <<5, 10>>
  /\ fetcher.raised = "JVNAPIError"

\* the third attempt succeeded after two failures and the page was returned
C28_WitnessThirdAttemptSucceeds ==
  /\ fetcher.pc = "returned"
  /\ fetcher.error = "none"
  /\ fetcher.attempt = 3
  /\ fetcher.slept = <<5, 10>>
  /\ fetcher.all_vulnerabilities > 0

(***************************************************************************)
(* C29: execute_full_matching never deletes or alters a match record for a *)
(* pair it does not match in the current run: a record of an earlier run   *)
(* for a pair the resolver no longer matches stays in the store with its   *)
(* old match_reason and matched_at after every later run.                  *)
(***************************************************************************)
\* the pairs invocation r matched
MatchedPairs(r) ==
  {<<run[r].matches[i].asset_id, run[r].matches[i].cve_id>> : i \in 1..Len(run[r].matches)}

\* a step of the engine keeps every stored row of a pair it did not match
UnmatchedRowsKept ==
  run' # run =>
    \A row \in matches :
       \/ row \in matches'
       \/ \E r \in Runners : /\ run[r].pc = "commit"
                             /\ <<row.asset_id, row.cve_id>> \in MatchedPairs(r)

C29_UnmatchedRowsKept == [][UnmatchedRowsKept]_vars

\* the stored rows of pairs the resolver does not match on the stored data
StaleRows ==
  {row \in matches :
     /\ row.asset_id \in DOMAIN assets
     /\ row.cve_id \in DOMAIN vulnerabilities
     /\ execute_matching(assets[row.asset_id].cpe_code, vulnerabilities[row.cve_id]) = "None"}

\* a later run has committed rows and returned while the row of a pair that
\* stopped matching is still stored, older than the rows of that run
C29_Witness ==
  /\ run["r1"].pc = "done"
  /\ run["r1"].previous # NoPrevious
  /\ \E stale \in StaleRows :
       \E row \in matches : row.matched_at > stale.matched_at

(***************************************************************************)
(* C30: the result of execute_matching does not depend on the order of the *)
(* identifiers in the advisory's list: every permutation of the list, and  *)
(* every duplication of an entry, gives the same match kind or the same    *)
(* no-match result.                                                        *)
(***************************************************************************)
\* the advisory has a list under "cpe"
HasIdentifierList ==
  /\ p_args.affected_products.t = "dict"
  /\ "cpe" \in DOMAIN p_args.affected_products.v
  /\ p_args.affected_products.v["cpe"].t = "list"

\* the permutations of list l
ListPermutations(l) == {[i \in 1..Len(l) |-> l[o[i]]] : o \in Orders(1..Len(l))}

\* the permutations of l, and l with one entry listed once more (every list
\* of the universe is checked, so every permutation gets its entries doubled)
Rearrangements(l) == ListPermutations(l) \cup {Append(l, l[i]) : i \in 1..Len(l)}

\* the advisory with list q in place of its own
WithIdentifierList(affected_products, q) ==
  JDict([affected_products.v EXCEPT !["cpe"] = JList(q)])

C30_ListOrderIrrelevant ==
  (p_fn = "execute_matching" /\ p_ret # "pending" /\ HasIdentifierList) =>
    \A q \in Rearrangements(ListedIds) :
       execute_matching(p_args.asset_cpe, WithIdentifierList(p_args.affected_products, q))
         = p_ret

\* an exact match found on the second of two different identifiers, the
\* first of which matches in no way
C30_Witness ==
  /\ p_fn = "execute_matching" /\ p_ret = "exact_match"
  /\ HasIdentifierList
  /\ Len(ListedIds) = 2
  /\ ~match_exact(p_args.asset_cpe, ListedIds[1])
  /\ ~match_wildcard(p_args.asset_cpe, ListedIds[1])
  /\ match_exact(p_args.asset_cpe, ListedIds[2])

\* a wildcard match found on the second identifier only
C30_WitnessWildcardSecond ==
  /\ p_fn = "execute_matching" /\ p_ret = "wildcard_match"
  /\ HasIdentifierList
  /\ Len(ListedIds) = 2
  /\ ~match_wildcard(p_args.asset_cpe, ListedIds[1])
  /\ match_wildcard(p_args.asset_cpe, ListedIds[2])

====
